---- MODULE Spec2Model ----
(***************************************************************************)
(* Model of the dependency-conflict analysis core of the .NET Central      *)
(* Package Management extension: PackageAnalysisService (the analysis      *)
(* orchestrator and its pure helpers), compareVersions, and the parts of   *)
(* DotnetCliService and CpmManager the orchestrator calls.                 *)
(*                                                                         *)
(* Strings that the code inspects character by character (package ids,     *)
(* versions, paths) are sequences of one-character strings; messages that  *)
(* are only stored and shown are TLA+ strings.                             *)
(***************************************************************************)
EXTENDS Integers, Sequences, FiniteSets, TLC

\* ------------------------------------------------------------------------
\* Bounds of the model
\* ------------------------------------------------------------------------
MaxCalls == 3        \* calls of runFullAnalysis/runProjectAnalysis/clearCache
MaxLiveCalls == 2    \* the same, in the specification with fairness
MaxRecords == 2      \* records in a list handed to a merge helper
MaxNames == 8        \* constrainers or parents named for one package
MaxEdges == 3        \* edges of a lock graph
MaxCallers == 2      \* concurrent ensureVulnerabilityDb callers
MaxLoads == 2        \* loads of the advisory feed
MaxPasses == 2       \* analysis passes that can be in flight at once
MaxTicks == 1        \* advances of the clock, each of TickMs

\* ------------------------------------------------------------------------
\* String primitives
\* ------------------------------------------------------------------------
NULL == "null"

\* String.prototype.toLowerCase on one character
LowerChar(c) ==
    CASE c = "A" -> "a" [] c = "B" -> "b" [] c = "C" -> "c" [] c = "D" -> "d"
      [] c = "P" -> "p" [] c = "Q" -> "q" [] c = "X" -> "x" [] c = "Y" -> "y"
      [] c = "Z" -> "z" [] OTHER -> c

toLowerCase(s) == IF s = <<>> THEN <<>> ELSE [i \in DOMAIN s |-> LowerChar(s[i])]

Digits == {"0", "1", "2", "3", "4", "5", "6", "7", "8", "9"}

DigitVal(c) ==
    CASE c = "0" -> 0 [] c = "1" -> 1 [] c = "2" -> 2 [] c = "3" -> 3
      [] c = "4" -> 4 [] c = "5" -> 5 [] c = "6" -> 6 [] c = "7" -> 7
      [] c = "8" -> 8 [] c = "9" -> 9

\* s.split(/[...]/) for a set of separator characters: the list of the
\* (possibly empty) pieces between separators
RECURSIVE SplitFrom(_, _, _, _)
SplitFrom(s, seps, i, cur) ==
    IF i > Len(s) THEN <<cur>>
    ELSE IF s[i] \in seps THEN <<cur>> \o SplitFrom(s, seps, i + 1, <<>>)
    ELSE SplitFrom(s, seps, i + 1, Append(cur, s[i]))

Split(s, seps) == SplitFrom(s, seps, 1, <<>>)

\* parseInt(p) || 0 for the segments a version can hold: optional leading
\* blanks, then the longest run of digits; no digit gives NaN, hence 0
RECURSIVE DigitRun(_, _, _)
DigitRun(s, i, acc) ==
    IF i <= Len(s) /\ s[i] \in Digits
    THEN DigitRun(s, i + 1, 10 * acc + DigitVal(s[i]))
    ELSE acc

RECURSIVE SkipBlanks(_, _)
SkipBlanks(s, i) == IF i <= Len(s) /\ s[i] = " " THEN SkipBlanks(s, i + 1) ELSE i

ParseIntOr0(s) ==
    LET i == SkipBlanks(s, 1) IN
    IF i <= Len(s) /\ s[i] = "-" THEN 0 - DigitRun(s, i + 1, 0)
    ELSE IF i <= Len(s) /\ s[i] = "+" THEN DigitRun(s, i + 1, 0)
    ELSE DigitRun(s, i, 0)

\* versionUtils.compareVersions
RECURSIVE ComparePartsFrom(_, _, _, _)
ComparePartsFrom(parts1, parts2, i, maxLength) ==
    IF i > maxLength THEN 0
    ELSE LET p1 == IF i <= Len(parts1) THEN parts1[i] ELSE 0
             p2 == IF i <= Len(parts2) THEN parts2[i] ELSE 0
         IN IF p1 < p2 THEN -1
            ELSE IF p1 > p2 THEN 1
            ELSE ComparePartsFrom(parts1, parts2, i + 1, maxLength)

\* the comparison run over the segments of v1 only
compareVersions_NoPadding(v1, v2) ==
    LET s1 == Split(v1, {".", "-"})
        s2 == Split(v2, {".", "-"})
        parts1 == [i \in DOMAIN s1 |-> ParseIntOr0(s1[i])]
        parts2 == [i \in DOMAIN s2 |-> ParseIntOr0(s2[i])]
    IN ComparePartsFrom(parts1, parts2, 1, Len(parts1))

compareVersions(v1, v2) ==
    LET s1 == Split(v1, {".", "-"})
        s2 == Split(v2, {".", "-"})
        parts1 == [i \in DOMAIN s1 |-> ParseIntOr0(s1[i])]
        parts2 == [i \in DOMAIN s2 |-> ParseIntOr0(s2[i])]
        maxLength == IF Len(parts1) > Len(parts2) THEN Len(parts1) ELSE Len(parts2)
    IN ComparePartsFrom(parts1, parts2, 1, maxLength)

\* index of the first occurrence of sub in s, 0 when there is none
RECURSIVE IndexOfFrom(_, _, _)
IndexOfFrom(s, sub, i) ==
    IF i + Len(sub) - 1 > Len(s) THEN 0
    ELSE IF SubSeq(s, i, i + Len(sub) - 1) = sub THEN i
    ELSE IndexOfFrom(s, sub, i + 1)

\* s.replace(sub, '') : removes the first occurrence only
RemoveFirst(s, sub) ==
    LET i == IndexOfFrom(s, sub, 1) IN
    IF i = 0 THEN s ELSE SubSeq(s, 1, i - 1) \o SubSeq(s, i + Len(sub), Len(s))

CsprojExt == <<".", "c", "s", "p", "r", "o", "j">>

\* p.split(/[\\/]/).pop()?.replace('.csproj', '') || p
ProjectNameOf(p) ==
    LET segs == Split(p, {"/", "\\"})
        stem == RemoveFirst(segs[Len(segs)], CsprojExt)
    IN IF stem = <<>> THEN p ELSE stem

\* Array.prototype.map
Map(seq, F(_)) == IF seq = <<>> THEN <<>> ELSE [i \in DOMAIN seq |-> F(seq[i])]

\* Array.prototype.includes
Includes(seq, x) == \E i \in DOMAIN seq : seq[i] = x

\* push x unless already included
PushUnique(seq, x) == IF Includes(seq, x) THEN seq ELSE Append(seq, x)

RECURSIVE PushAllUnique(_, _)
PushAllUnique(seq, xs) ==
    IF xs = <<>> THEN seq
    ELSE PushAllUnique(PushUnique(seq, Head(xs)), Tail(xs))

\* Array.prototype.filter
Filter(seq, Keep(_)) == SelectSeq(seq, Keep)

\* index of the first element satisfying a test, 0 when there is none (find)
FindIndex(seq, Test(_)) ==
    IF \E i \in DOMAIN seq : Test(seq[i])
    THEN CHOOSE i \in DOMAIN seq : Test(seq[i]) /\ \A j \in 1..(i - 1) : ~Test(seq[j])
    ELSE 0

\* Array.prototype.slice(0, n)
Slice0(seq, n) == SubSeq(seq, 1, IF Len(seq) < n THEN Len(seq) ELSE n)

RECURSIVE Concat(_)
Concat(ss) == IF ss = <<>> THEN <<>> ELSE Head(ss) \o Concat(Tail(ss))

\* String(n) for a natural number, as characters
DigitChar(d) ==
    CASE d = 0 -> "0" [] d = 1 -> "1" [] d = 2 -> "2" [] d = 3 -> "3"
      [] d = 4 -> "4" [] d = 5 -> "5" [] d = 6 -> "6" [] d = 7 -> "7"
      [] d = 8 -> "8" [] d = 9 -> "9"

RECURSIVE NatToChars(_)
NatToChars(n) ==
    IF n < 10 THEN <<DigitChar(n)>>
    ELSE Append(NatToChars(n \div 10), DigitChar(n % 10))

\* `and ${n} more`
AndMore(n) == <<"a", "n", "d", " ">> \o NatToChars(n) \o <<" ", "m", "o", "r", "e">>

\* a cap that keeps five names before the synthetic entry
CapNames_KeepFive(names) ==
    IF Len(names) > 5
    THEN Append(SubSeq(names, 1, 5), AndMore(Len(names) - 5))
    ELSE names

\* the cap applied to transitiveParents and requiredBy
CapNames(names) ==
    IF Len(names) > 5
    THEN Append(SubSeq(names, 1, 3), AndMore(Len(names) - 3))
    ELSE names

\* ------------------------------------------------------------------------
\* Central manifest (CpmManager, read-only for the analysis)
\* ------------------------------------------------------------------------
\* new Map(centralPackages.map(p => [p.name.toLowerCase(), p])).has / .get :
\* a later package of the same lowercase name replaces an earlier one
CentralHas(centralPackages, key) ==
    \E i \in DOMAIN centralPackages : toLowerCase(centralPackages[i].name) = key

CentralGet(centralPackages, key) ==
    centralPackages[CHOOSE i \in DOMAIN centralPackages :
        /\ toLowerCase(centralPackages[i].name) = key
        /\ \A j \in (i + 1)..Len(centralPackages) :
              toLowerCase(centralPackages[j].name) # key]

\* ------------------------------------------------------------------------
\* PackageAnalysisService.detectConflicts
\* ------------------------------------------------------------------------
\* the (project, framework, transitive package) triples in loop order
TransitiveEntries(output) ==
    Concat([pi \in DOMAIN output.projects |->
        LET project == output.projects[pi] IN
        Concat([fi \in DOMAIN project.frameworks |->
            LET framework == project.frameworks[fi] IN
            [ti \in DOMAIN framework.transitivePackages |->
                [projectName |-> ProjectNameOf(project.path),
                 framework |-> framework.framework,
                 topLevelIds |-> PushAllUnique(<<>>,
                     [k \in DOMAIN framework.topLevelPackages |->
                         toLowerCase(framework.topLevelPackages[k].id)]),
                 pkg |-> framework.transitivePackages[ti]]]])])

\* the flagging test with the comparison dropped: any differing version
CentralIsLower_AnyDifference(centralPkg, transitivePackage) ==
    centralPkg.version # transitivePackage.resolvedVersion

\* the flagging test: the central version is strictly lower
CentralIsLower(centralPkg, transitivePackage) ==
    /\ centralPkg.version # transitivePackage.resolvedVersion
    /\ compareVersions(centralPkg.version, transitivePackage.resolvedVersion) < 0

\* one iteration of the innermost loop; acc = [conflicts, seen]
DetectStep(acc, e, centralPackages) ==
    LET lid == toLowerCase(e.pkg.id) IN
    IF ~CentralHas(centralPackages, lid) THEN acc
    ELSE LET centralPkg == CentralGet(centralPackages, lid) IN
         IF ~CentralIsLower(centralPkg, e.pkg)
         THEN acc
         ELSE LET key == <<lid, e.framework>> IN
              IF key \in acc.seen
              THEN LET SameKey(c) == /\ toLowerCase(c.packageId) = lid
                                     /\ c.framework = e.framework
                       i == FindIndex(acc.conflicts, SameKey)
                   IN IF i = 0 THEN acc
                      ELSE [acc EXCEPT !.conflicts[i].projects =
                                            PushUnique(@, e.projectName)]
              ELSE LET KeepParent(id) == ~CentralHas(centralPackages, id) \/ id # lid
                   IN [conflicts |-> Append(acc.conflicts,
                          [packageId |-> centralPkg.name,
                           centralVersion |-> centralPkg.version,
                           transitiveVersion |-> e.pkg.resolvedVersion,
                           transitiveParents |-> Slice0(Filter(e.topLevelIds, KeepParent), 5),
                           projects |-> <<e.projectName>>,
                           framework |-> e.framework]),
                       seen |-> acc.seen \cup {key}]

RECURSIVE DetectFold(_, _, _)
DetectFold(acc, entries, centralPackages) ==
    IF entries = <<>> THEN acc
    ELSE DetectFold(DetectStep(acc, Head(entries), centralPackages),
                    Tail(entries), centralPackages)

\* detection run on each project alone, the lists put end to end
detectConflicts_PerProject(output, centralPackages) ==
    Concat([pi \in DOMAIN output.projects |->
        DetectFold([conflicts |-> <<>>, seen |-> {}],
                   TransitiveEntries([projects |-> <<output.projects[pi]>>]),
                   centralPackages).conflicts])

detectConflicts(output, centralPackages) ==
    DetectFold([conflicts |-> <<>>, seen |-> {}],
               TransitiveEntries(output), centralPackages).conflicts

\* ------------------------------------------------------------------------
\* PackageAnalysisService.parseNu1608Warnings
\* A warning message is the list of its blank-separated words.
\* ------------------------------------------------------------------------
WRequires == <<"r", "e", "q", "u", "i", "r", "e", "s">>
WBut == <<"b", "u", "t">>
WVersion == <<"v", "e", "r", "s", "i", "o", "n">>
WWas == <<"w", "a", "s">>
WResolved == <<"r", "e", "s", "o", "l", "v", "e", "d">>

HasPrefix(w, pre) == Len(w) >= Len(pre) /\ SubSeq(w, 1, Len(pre)) = pre

\* the nu1608Regex tried with "requires" at word k: matched, and the captures
NoMatch == [matched |-> FALSE]

Nu1608MatchAt(words, k) ==
    IF ~(k >= 3 /\ k + 2 <= Len(words) /\ words[k] = WRequires
         /\ words[k + 2] # <<>> /\ words[k + 2][1] = "(")
    THEN NoMatch
    ELSE LET Closes(i) == Includes(words[i], ")")
             later == {i \in (k + 2)..Len(words) : Closes(i)}
         IN IF later = {} THEN NoMatch
            ELSE LET m == CHOOSE i \in later : \A j \in later : i <= j
                     w == words[m]
                     from == IF m = k + 2 THEN 2 ELSE 1
                     closeAt == CHOOSE i \in DOMAIN w :
                                    w[i] = ")" /\ \A j \in 1..(i - 1) : w[j] # ")"
                     digitsAt == {i \in from..(Len(w) - 1) : w[i] \in Digits}
                 IN IF closeAt # Len(w) \/ digitsAt = {} THEN NoMatch
                    ELSE IF ~(/\ m + 6 <= Len(words)
                              /\ words[m + 1] = WBut
                              /\ words[m + 2] = WVersion
                              /\ words[m + 5] = WWas
                              /\ HasPrefix(words[m + 6], WResolved))
                    THEN NoMatch
                    ELSE LET d == CHOOSE i \in digitsAt : \A j \in digitsAt : i <= j
                         IN [matched |-> TRUE,
                             constrainer |-> words[k - 2],
                             packageId |-> words[k + 1],
                             requiredVersion |-> SubSeq(w, d, Len(w) - 1),
                             resolvedVersion |-> words[m + 4]]

\* nu1608Regex.exec(message): the leftmost match
Nu1608Match(words) ==
    LET ks == {k \in DOMAIN words : Nu1608MatchAt(words, k).matched} IN
    IF ks = {} THEN NoMatch
    ELSE Nu1608MatchAt(words, CHOOSE k \in ks : \A j \in ks : k <= j)

NU1608 == "NU1608"

\* one iteration of the loop over the warnings; acc = [conflicts, seen]
Nu1608Step(acc, warning) ==
    IF warning.code # NU1608 THEN acc
    ELSE LET match == Nu1608Match(warning.message) IN
         IF ~match.matched THEN acc
         ELSE LET projectName == ProjectNameOf(warning.project)
                  key == toLowerCase(match.packageId)
              IN IF key \in acc.seen
                 THEN LET SameKey(c) == toLowerCase(c.packageId) = key
                          i == FindIndex(acc.conflicts, SameKey)
                      IN IF i = 0 THEN acc
                         ELSE [acc EXCEPT
                                 !.conflicts[i].transitiveParents =
                                     PushUnique(@, match.constrainer),
                                 !.conflicts[i].projects = PushUnique(@, projectName)]
                 ELSE [conflicts |-> Append(acc.conflicts,
                          [packageId |-> match.packageId,
                           centralVersion |-> match.resolvedVersion,
                           transitiveVersion |-> match.requiredVersion,
                           transitiveParents |-> <<match.constrainer>>,
                           projects |-> <<projectName>>,
                           framework |-> <<>>]),
                       seen |-> acc.seen \cup {key}]

RECURSIVE Nu1608Fold(_, _)
Nu1608Fold(acc, warnings) ==
    IF warnings = <<>> THEN acc
    ELSE Nu1608Fold(Nu1608Step(acc, Head(warnings)), Tail(warnings))

\* every warning parsed on its own, the records put end to end
parseNu1608Warnings_PerWarning(warnings) ==
    Concat([i \in DOMAIN warnings |->
        Nu1608Fold([conflicts |-> <<>>, seen |-> {}], <<warnings[i]>>).conflicts])

parseNu1608Warnings(warnings) ==
    LET conflicts == Nu1608Fold([conflicts |-> <<>>, seen |-> {}], warnings).conflicts
        Capped(c) == [c EXCEPT !.transitiveParents = CapNames(@)]
    IN Map(conflicts, Capped)

\* ------------------------------------------------------------------------
\* PackageAnalysisService.mergeConflicts
\* ------------------------------------------------------------------------
RECURSIVE MergeConflictsFold(_, _, _)
MergeConflictsFold(result, seen, secondary) ==
    IF secondary = <<>> THEN result
    ELSE LET conflict == Head(secondary)
             key == toLowerCase(conflict.packageId)
         IN IF key \notin seen
            THEN MergeConflictsFold(Append(result, conflict), seen \cup {key},
                                    Tail(secondary))
            ELSE MergeConflictsFold(result, seen, Tail(secondary))

mergeConflicts_NoDedup(primary, secondary) == primary \o secondary

mergeConflicts(primary, secondary) ==
    MergeConflictsFold(primary,
                       {toLowerCase(primary[i].packageId) : i \in DOMAIN primary},
                       secondary)

\* ------------------------------------------------------------------------
\* PackageAnalysisService.extractVulnerabilities
\* ------------------------------------------------------------------------
\* the packages in loop order: per project, per framework, the top-level
\* packages (isTransitive false) and then the transitive ones (true)
VulnerabilityEntries(output) ==
    Concat([pi \in DOMAIN output.projects |->
        LET project == output.projects[pi] IN
        Concat([fi \in DOMAIN project.frameworks |->
            LET framework == project.frameworks[fi]
                Entry(pkg, isTransitive) ==
                    [projectName |-> ProjectNameOf(project.path),
                     framework |-> framework.framework,
                     isTransitive |-> isTransitive,
                     pkg |-> pkg]
            IN [k \in DOMAIN framework.topLevelPackages |->
                   Entry(framework.topLevelPackages[k], FALSE)]
               \o [k \in DOMAIN framework.transitivePackages |->
                   Entry(framework.transitivePackages[k], TRUE)]])])

Advisory(v) == [severity |-> v.severity, advisoryUrl |-> v.advisoryurl]

\* processPackages, one package; acc = [vulns, seen]
VulnStep(acc, e) ==
    IF e.pkg.vulnerabilities = <<>> THEN acc
    ELSE LET key == <<toLowerCase(e.pkg.id), e.pkg.resolvedVersion>> IN
         IF key \in acc.seen
         THEN LET SameKey(v) == /\ toLowerCase(v.packageId) = toLowerCase(e.pkg.id)
                                /\ v.resolvedVersion = e.pkg.resolvedVersion
                  i == FindIndex(acc.vulns, SameKey)
              IN IF i = 0 THEN acc
                 ELSE [acc EXCEPT !.vulns[i].projects = PushUnique(@, e.projectName)]
         ELSE [vulns |-> Append(acc.vulns,
                  [packageId |-> e.pkg.id,
                   resolvedVersion |-> e.pkg.resolvedVersion,
                   isTransitive |-> e.isTransitive,
                   vulnerabilities |-> Map(e.pkg.vulnerabilities, Advisory),
                   projects |-> <<e.projectName>>,
                   framework |-> e.framework]),
               seen |-> acc.seen \cup {key}]

RECURSIVE VulnFold(_, _)
VulnFold(acc, entries) ==
    IF entries = <<>> THEN acc
    ELSE VulnFold(VulnStep(acc, Head(entries)), Tail(entries))

\* extraction run on each project alone, the lists put end to end
extractVulnerabilities_PerProject(output) ==
    Concat([pi \in DOMAIN output.projects |->
        VulnFold([vulns |-> <<>>, seen |-> {}],
                 VulnerabilityEntries([projects |-> <<output.projects[pi]>>])).vulns])

extractVulnerabilities(output) ==
    VulnFold([vulns |-> <<>>, seen |-> {}], VulnerabilityEntries(output)).vulns

\* ------------------------------------------------------------------------
\* PackageAnalysisService.mergeProjectConflicts / mergeProjectVulnerabilities
\* ------------------------------------------------------------------------
\* the first loop of both merges: strip the affected projects, drop the
\* records left without a project
RetainUnaffected(existing, affectedProjectNames) ==
    LET affectedSet == {toLowerCase(affectedProjectNames[i]) :
                            i \in DOMAIN affectedProjectNames}
        Unaffected(p) == toLowerCase(p) \notin affectedSet
        Strip(r) == [r EXCEPT !.projects = Filter(@, Unaffected)]
        stripped == Map(existing, Strip)
        HasProjects(r) == Len(r.projects) > 0
    IN Filter(stripped, HasProjects)

\* the new results appended without looking for a record of the same key
UnionConflicts_AppendAll(retained, newResults) == retained \o newResults

RECURSIVE UnionConflicts(_, _)
UnionConflicts(retained, newResults) ==
    IF newResults = <<>> THEN retained
    ELSE LET newConflict == Head(newResults)
             SameKey(c) == /\ toLowerCase(c.packageId) = toLowerCase(newConflict.packageId)
                           /\ c.framework = newConflict.framework
             i == FindIndex(retained, SameKey)
         IN IF i # 0
            THEN UnionConflicts([retained EXCEPT ![i].projects =
                                     PushAllUnique(@, newConflict.projects)],
                                Tail(newResults))
            ELSE UnionConflicts(Append(retained, newConflict), Tail(newResults))

mergeProjectConflicts_KeepAll(existing, newResults, affectedProjectNames) ==
    UnionConflicts(existing, newResults)

mergeProjectConflicts(existing, newResults, affectedProjectNames) ==
    UnionConflicts(RetainUnaffected(existing, affectedProjectNames), newResults)

RECURSIVE UnionVulnerabilities(_, _)
UnionVulnerabilities(retained, newResults) ==
    IF newResults = <<>> THEN retained
    ELSE LET newVuln == Head(newResults)
             SameKey(v) == /\ toLowerCase(v.packageId) = toLowerCase(newVuln.packageId)
                           /\ v.resolvedVersion = newVuln.resolvedVersion
             i == FindIndex(retained, SameKey)
         IN IF i # 0
            THEN UnionVulnerabilities([retained EXCEPT ![i].projects =
                                           PushAllUnique(@, newVuln.projects)],
                                      Tail(newResults))
            ELSE UnionVulnerabilities(Append(retained, newVuln), Tail(newResults))

mergeProjectVulnerabilities_KeepAll(existing, newResults, affectedProjectNames) ==
    UnionVulnerabilities(existing, newResults)

mergeProjectVulnerabilities(existing, newResults, affectedProjectNames) ==
    UnionVulnerabilities(RetainUnaffected(existing, affectedProjectNames), newResults)

\* ------------------------------------------------------------------------
\* PackageAnalysisService.parseVersionRange
\* ------------------------------------------------------------------------
RECURSIVE TrimLeft(_)
TrimLeft(s) == IF s # <<>> /\ Head(s) = " " THEN TrimLeft(Tail(s)) ELSE s

RECURSIVE TrimRight(_)
TrimRight(s) ==
    IF s # <<>> /\ s[Len(s)] = " " THEN TrimRight(SubSeq(s, 1, Len(s) - 1)) ELSE s

\* a trim of the leading blanks only
Trim_LeftOnly(s) == TrimLeft(s)

Trim(s) == TrimRight(TrimLeft(s))

\* the longest prefix of s[i..] made of characters outside stop
RECURSIVE RunUntil(_, _, _)
RunUntil(s, i, stop) ==
    IF i > Len(s) \/ s[i] \in stop THEN <<>>
    ELSE <<s[i]>> \o RunUntil(s, i + 1, stop)

parseVersionRange(range) ==
    LET trimmed == Trim(range)
        n == Len(trimmed)
        bracketed == n >= 2 /\ trimmed[1] = "[" /\ trimmed[n] = "]"
        inner == SubSeq(trimmed, 2, n - 1)
        \* /^\[([^\],]+)\]$/
        exactMatch == /\ bracketed /\ inner # <<>>
                      /\ ~Includes(inner, "]") /\ ~Includes(inner, ",")
        comma == IndexOfFrom(inner, <<",">>, 1)
        lower == SubSeq(inner, 1, comma - 1)
        upper == SubSeq(inner, comma + 1, Len(inner))
        \* /^\[([^\],]+),\s*([^\]]+)\]$/
        exactRangeMatch == /\ bracketed /\ comma > 1
                           /\ ~Includes(lower, "]")
                           /\ upper # <<>> /\ ~Includes(upper, "]")
        digitsAt == {i \in DOMAIN trimmed : trimmed[i] \in Digits}
    IN IF exactMatch THEN [version |-> Trim(inner), isExact |-> TRUE]
       ELSE IF exactRangeMatch /\ Trim(lower) = Trim(upper)
       THEN [version |-> Trim(lower), isExact |-> TRUE]
       \* /[\[(]?\s*(\d[\d.]*[^\s,)\]]*)/
       ELSE IF digitsAt = {} THEN [version |-> trimmed, isExact |-> FALSE]
       ELSE LET d == CHOOSE i \in digitsAt : \A j \in digitsAt : i <= j
            IN [version |-> RunUntil(trimmed, d, {" ", ",", ")", "]"}),
                isExact |-> FALSE]

\* ------------------------------------------------------------------------
\* NuGetService.versionInRange
\* ------------------------------------------------------------------------
\* an upper bound test that takes every bound as inclusive
WithinUpper_Inclusive(cmp, upperInclusive) == cmp <= 0

\* upperInclusive ? cmp > 0 : cmp >= 0 rejects
WithinUpper(cmp, upperInclusive) == IF upperInclusive THEN cmp <= 0 ELSE cmp < 0

\* lowerInclusive ? cmp < 0 : cmp <= 0 rejects
WithinLower(cmp, lowerInclusive) == IF lowerInclusive THEN cmp >= 0 ELSE cmp > 0

versionInRange(version, range) ==
    LET trimmed == Trim(range)
        n == Len(trimmed)
        inner == SubSeq(trimmed, 2, n - 1)
        comma == IndexOfFrom(inner, <<",">>, 1)
        rest == SubSeq(inner, comma + 1, Len(inner))
        \* /^([[(])\s*([^,]*?)\s*,\s*([^)\]]*?)\s*([\])])$/
        match == /\ n >= 3
                 /\ trimmed[1] \in {"[", "("}
                 /\ trimmed[n] \in {"]", ")"}
                 /\ comma > 0
                 /\ ~Includes(rest, ")") /\ ~Includes(rest, "]")
        lowerStr == Trim(SubSeq(inner, 1, comma - 1))
        upperStr == Trim(rest)
    IN IF ~match THEN FALSE
       ELSE IF lowerStr # <<>>
               /\ ~WithinLower(compareVersions(version, lowerStr), trimmed[1] = "[")
       THEN FALSE
       ELSE IF upperStr # <<>>
               /\ ~WithinUpper(compareVersions(version, upperStr), trimmed[n] = "]")
       THEN FALSE
       ELSE TRUE

\* ------------------------------------------------------------------------
\* PackageAnalysisService.extractConstraintsFromAssets (the reduction that
\* follows the reads).  assetResults holds, per project, the parsed lock
\* file or the mark of a failed read; the index is the list of its entries in insertion order.
\* ------------------------------------------------------------------------
\* the dependency edges in loop order
AssetEdges(assetResults) ==
    Concat([ai \in DOMAIN assetResults |->
        IF ~assetResults[ai].parsed THEN <<>>
        ELSE LET targets == assetResults[ai].targets IN
             Concat([ti \in DOMAIN targets |->
                 Concat([pi \in DOMAIN targets[ti] |->
                     LET pkg == targets[ti][pi] IN
                     [di \in DOMAIN pkg.dependencies |->
                         [parentPkg |-> Split(pkg.key, {"/"})[1],
                          depName |-> pkg.dependencies[di].name,
                          range |-> pkg.dependencies[di].range]]])])])

\* a replacement test that lets any exact requirement in
PrefersParsed_AnyExact(parsed, existing) == parsed.isExact

\* parsed.isExact && !existing.isExact
PrefersParsed(parsed, existing) == parsed.isExact /\ ~existing.isExact

ConstraintStep(index, edge, centralPackages) ==
    IF ~CentralHas(centralPackages, toLowerCase(edge.depName)) THEN index
    ELSE IF toLowerCase(edge.parentPkg) = toLowerCase(edge.depName) THEN index
    ELSE LET parsed == parseVersionRange(edge.range)
             key == toLowerCase(edge.depName)
             HasKey(c) == c.key = key
             i == FindIndex(index, HasKey)
         IN IF i # 0
            THEN LET withParent ==
                         [index EXCEPT ![i].requiredBy = PushUnique(@, edge.parentPkg)]
                 IN IF PrefersParsed(parsed, index[i])
                    THEN [withParent EXCEPT ![i].requiredVersion = parsed.version,
                                            ![i].versionRange = edge.range,
                                            ![i].isExact = TRUE]
                    ELSE withParent
            ELSE Append(index,
                     [key |-> key,
                      packageId |-> edge.depName,
                      requiredVersion |-> parsed.version,
                      versionRange |-> edge.range,
                      isExact |-> parsed.isExact,
                      requiredBy |-> <<edge.parentPkg>>])

RECURSIVE ConstraintFold(_, _, _)
ConstraintFold(index, edges, centralPackages) ==
    IF edges = <<>> THEN index
    ELSE ConstraintFold(ConstraintStep(index, Head(edges), centralPackages),
                        Tail(edges), centralPackages)

\* the loops run on the index as it is when the reads have settled
extractConstraints(current, assetResults, centralPackages) ==
    LET index == ConstraintFold(current, AssetEdges(assetResults), centralPackages)
        Capped(c) == [c EXCEPT !.requiredBy = CapNames(@)]
    IN Map(index, Capped)

\* ------------------------------------------------------------------------
\* The environment: manifest, projects, and what the external tool and the
\* file system can answer
\* ------------------------------------------------------------------------
V1 == <<"1", ".", "0">>
V2 == <<"2", ".", "0">>
PkgX == <<"X">>
PkgLowerX == <<"x">>
PkgY == <<"Y">>
PkgP == <<"P">>
Net8 == <<"n", "8">>
PathA == <<"s", "/", "A", ".", "c", "s", "p", "r", "o", "j">>
PathB == <<"s", "/", "B", ".", "c", "s", "p", "r", "o", "j">>
PathLowerB == <<"s", "/", "b", ".", "c", "s", "p", "r", "o", "j">>
SlnPath == <<"s", "/", "W", ".", "s", "l", "n">>
RootPath == <<"s">>

\* CpmManager.getAllPackages
getAllPackages == <<[name |-> PkgX, version |-> V1], [name |-> PkgY, version |-> V2]>>

\* CpmManager.getAllProjects
getAllProjects == <<[path |-> PathA], [path |-> PathB]>>

ListPkg(id, version, vulnerable) ==
    [id |-> id, resolvedVersion |-> version,
     vulnerabilities |-> IF vulnerable
                         THEN <<[severity |-> "High", advisoryurl |-> "u"]>>
                         ELSE <<>>]

ListProject(path, topLevel, transitive) ==
    [path |-> path,
     frameworks |-> <<[framework |-> Net8,
                       topLevelPackages |-> topLevel,
                       transitivePackages |-> transitive]>>]

\* DotnetListOutput values the list commands can produce
ReportEmpty == [projects |-> <<>>]

ReportAB ==
    [projects |-> <<ListProject(PathA, <<ListPkg(PkgP, V1, FALSE)>>,
                                       <<ListPkg(PkgLowerX, V2, TRUE)>>),
                    ListProject(PathB, <<ListPkg(PkgP, V1, TRUE)>>,
                                       <<ListPkg(PkgX, V2, TRUE)>>)>>]

Reports == {ReportEmpty, ReportAB}

\* DotnetListOutput values of the vulnerability scan
VulnReports == {ReportAB}

\* RestoreWarning lists restoreAndGetWarnings can produce
WarningX ==
    [code |-> NU1608,
     message |-> <<PkgP, V1, WRequires, PkgX, <<"(", "=">>, <<"1", ".", "0", ")">>,
                   WBut, WVersion, PkgX, V2, WWas,
                   <<"r", "e", "s", "o", "l", "v", "e", "d", ".">>>>,
     project |-> PathB]

WarningLists == {<<>>, <<WarningX>>}

\* rejections of the list commands (DotnetCliService.runCommand, parseJsonOutput)
ParseError ==
    [code |-> "PARSE_ERROR",
     message |-> "No JSON output from dotnet CLI. Ensure you have .NET SDK 7.0.200 or later."]
CommandFailed == [code |-> "COMMAND_FAILED", message |-> "dotnet command failed: boom"]
ListFailures == {ParseError, CommandFailed}

NotFoundMessage == "dotnet CLI not found. Install the .NET SDK or set dotnetCpm.dotnetPath."
NoRootMessage == "No workspace root found"

\* parsed project.assets.json files
NoAssets == [parsed |-> FALSE]
AssetsP ==
    [parsed |-> TRUE, targets |-> <<<<[key |-> <<"P", "/", "1">>,
                      dependencies |-> <<[name |-> PkgX, range |-> <<"[", "1", ".", "0", "]">>]>>]>>>>]
AssetsQ ==
    [parsed |-> TRUE, targets |-> <<<<[key |-> <<"Q", "/", "1">>,
                      dependencies |-> <<[name |-> PkgLowerX, range |-> V2]>>]>>>>]

\* inputs of runProjectAnalysis
ProjectPathInputs == {<<PathLowerB>>}

\* longest projectPaths argument among the inputs
MaxProjectPaths == 1

\* what getSolutionPath can answer: the workspace has a solution file
SolutionPaths == {SlnPath}

\* ------------------------------------------------------------------------
\* State of PackageAnalysisService and of the calls in flight
\* ------------------------------------------------------------------------
VARIABLES
    analysisResult,         \* this._analysisResult
    transitiveConstraints,  \* this._transitiveConstraints, in insertion order
    fired,                  \* number of _onDidChangeAnalysis.fire calls of the latest step
    passes,                 \* the runFullAnalysis/runProjectAnalysis calls past their guards
    now,                    \* the latest reading of the clock (Date.now(), new Date())
    callsLeft,              \* number of public calls still to come
    probe,                  \* the helper run by the latest step, or the helper call under
                            \* examination: its inputs and its result
    lastCall,               \* the public call made by the latest step, if any
    vulnDb,                 \* NuGetService.vulnDb: no element when null, else the one Map
    vulnDbTimestamp,        \* NuGetService.vulnDbTimestamp
    vulnDbLoading,          \* NuGetService.vulnDbLoading: the promise of a load, or null
    loads,                  \* the promises loadVulnerabilityDb has returned
    db,                     \* the local db of each loadVulnerabilityDb call
    callers                 \* the ensureVulnerabilityDb calls

\* the fields of the NuGetService and the calls on it
nugetVars == <<vulnDb, vulnDbTimestamp, vulnDbLoading, loads, db, callers>>

vars == <<analysisResult, transitiveConstraints, fired, passes, now, callsLeft, lastCall, probe,
          vulnDb, vulnDbTimestamp, vulnDbLoading, loads, db, callers>>

\* lastUpdated: null
NullDate == 0 - 1

cacheTtlMs == 10 * 60 * 1000

\* one clock advance, in milliseconds: the age at which the cache expires
TickMs == cacheTtlMs

EmptyResult ==
    [transitiveConflicts |-> <<>>,
     vulnerablePackages |-> <<>>,
     lastUpdated |-> NullDate,
     isRunning |-> FALSE,
     error |-> NULL]

NoReason == [code |-> "", message |-> ""]
NoVuln == [stage |-> "none", value |-> <<>>]

IdlePass ==
    [pc |-> "idle", kind |-> "full", projectPaths |-> <<>>, workspaceRoot |-> <<>>,
     tasks |-> <<>>, vuln |-> NoVuln, fetched |-> {}, outcome |-> ""]

PassIds == 1..MaxPasses

\* the latest step was not a public call
NoCall == [op |-> "none", force |-> FALSE, outcome |-> "none"]

InFlight(p) == passes[p].pc # "idle"

\* the service as constructed
Constructed ==
    /\ analysisResult = EmptyResult
    /\ transitiveConstraints = <<>>
    /\ fired = 0
    /\ passes = [p \in PassIds |-> IdlePass]
    /\ now = 0
    /\ lastCall = NoCall

\* no helper is under examination
NoProbe == [fn |-> "none", done |-> FALSE]

\* NuGetService after construction: no database, no load, no caller
CallerIds == 1..MaxCallers
LoadIds == 1..MaxLoads
\* vulnDbLoading: null, and the call that awaits no promise
NoLoad == 0
IdleCaller == [pc |-> "idle", awaits |-> NoLoad]

\* number of pages of the advisory feed
PageCount == 2

\* a Map<string, VulnerabilityEntry[]> | null: null, and the Map that holds
\* the entries of the given pages
NoDb == <<>>
MapOf(pages) == <<pages>>

\* the entries of page k as load l received them
Page(l, k) == <<l, k>>

NuGetConstructed ==
    /\ vulnDb = NoDb
    /\ db = [l \in LoadIds |-> NoDb]
    /\ vulnDbTimestamp = 0
    /\ vulnDbLoading = NoLoad
    /\ loads = [l \in LoadIds |-> "none"]
    /\ callers = [c \in CallerIds |-> IdleCaller]

Init == Constructed /\ NuGetConstructed /\ callsLeft = MaxCalls /\ probe = NoProbe

\* what a reading of the clock can give: time does not run backwards
ClockReadings == {t \in {now, now + TickMs} : t <= MaxTicks * TickMs}

\* an immediate return of this._analysisResult (no pass is started); t is
\* the clock as the call has read it
ReturnsAtOnce(op, force, outcome, t) ==
    /\ callsLeft > 0
    /\ callsLeft' = callsLeft - 1
    /\ lastCall' = [op |-> op, force |-> force, outcome |-> outcome]
    /\ fired' = 0
    /\ probe' = NoProbe
    /\ UNCHANGED nugetVars
    /\ now' = t
    /\ UNCHANGED <<analysisResult, transitiveConstraints, passes>>

StartsPass_ResetsResults(p, op, force, kind, projectPaths, workspaceRoot, t) ==
    /\ callsLeft > 0
    /\ ~InFlight(p)
    /\ \A q \in PassIds : q < p => InFlight(q)
    /\ callsLeft' = callsLeft - 1
    /\ lastCall' = [op |-> op, force |-> force, outcome |-> "started"]
    /\ fired' = 1
    /\ probe' = NoProbe
    /\ UNCHANGED nugetVars
    /\ now' = t
    /\ IF workspaceRoot = <<>>
       THEN /\ analysisResult' = [analysisResult EXCEPT !.isRunning = TRUE,
                                                         !.error = NoRootMessage,
                                                         !.transitiveConflicts = <<>>]
            /\ transitiveConstraints' = <<>>
            /\ passes' = [passes EXCEPT ![p] =
                   [IdlePass EXCEPT !.pc = "constraints", !.kind = kind,
                                    !.projectPaths = projectPaths,
                                    !.outcome = "noRoot"]]
       ELSE /\ analysisResult' = [analysisResult EXCEPT !.isRunning = TRUE,
                                                         !.error = NULL,
                                                         !.transitiveConflicts = <<>>]
            /\ UNCHANGED transitiveConstraints
            /\ passes' = [passes EXCEPT ![p] =
                   [IdlePass EXCEPT !.pc = "avail", !.kind = kind,
                                    !.projectPaths = projectPaths,
                                    !.workspaceRoot = workspaceRoot]]

\* from "isRunning = true" to the first await of runFullAnalysis (kind "full")
\* or runProjectAnalysis (kind "project"): mark running, reset the error,
\* notify; without a workspace root the pass fails at once
StartsPass(p, op, force, kind, projectPaths, workspaceRoot, t) ==
    /\ callsLeft > 0
    /\ ~InFlight(p)
    /\ \A q \in PassIds : q < p => InFlight(q)
    /\ callsLeft' = callsLeft - 1
    /\ lastCall' = [op |-> op, force |-> force, outcome |-> "started"]
    /\ fired' = 1
    /\ probe' = NoProbe
    /\ UNCHANGED nugetVars
    /\ now' = t
    /\ IF workspaceRoot = <<>>
       THEN \* throw; catch sets the error; finally starts the constraint rebuild
            /\ analysisResult' = [analysisResult EXCEPT !.isRunning = TRUE,
                                                         !.error = NoRootMessage]
            /\ transitiveConstraints' = <<>>
            /\ passes' = [passes EXCEPT ![p] =
                   [IdlePass EXCEPT !.pc = "constraints", !.kind = kind,
                                    !.projectPaths = projectPaths,
                                    !.outcome = "noRoot"]]
       ELSE /\ analysisResult' = [analysisResult EXCEPT !.isRunning = TRUE,
                                                         !.error = NULL]
            /\ UNCHANGED transitiveConstraints
            /\ passes' = [passes EXCEPT ![p] =
                   [IdlePass EXCEPT !.pc = "avail", !.kind = kind,
                                    !.projectPaths = projectPaths,
                                    !.workspaceRoot = workspaceRoot]]

\* what getWorkspaceRoot can answer
WorkspaceRoots == {<<>>, RootPath}

Fresh_Inverted(t) ==
    /\ analysisResult.lastUpdated # NullDate
    /\ t - analysisResult.lastUpdated > cacheTtlMs

\* the cached result is still valid at time t
Fresh(t) ==
    /\ analysisResult.lastUpdated # NullDate
    /\ t - analysisResult.lastUpdated < cacheTtlMs

\* the clock as the cache check reads it; it is read only when the call is
\* not forced and a result is cached
CheckReadings(force) ==
    IF ~force /\ analysisResult.lastUpdated # NullDate THEN ClockReadings ELSE {now}

\* runFullAnalysis(force), from the call to its first await or return
runFullAnalysis(force) ==
    \/ \E t \in CheckReadings(force) :
          /\ ~force /\ Fresh(t)
          /\ ReturnsAtOnce("runFullAnalysis", force, "cached", t)
    \/ \E t \in CheckReadings(force) :
          /\ ~(~force /\ Fresh(t))
          /\ analysisResult.isRunning
          /\ ReturnsAtOnce("runFullAnalysis", force, "running", t)
    \/ \E t \in CheckReadings(force) :
          /\ ~(~force /\ Fresh(t))
          /\ ~analysisResult.isRunning
          /\ \E p \in PassIds, workspaceRoot \in WorkspaceRoots :
                 StartsPass(p, "runFullAnalysis", force, "full", <<>>, workspaceRoot, t)

runProjectAnalysis_NoFallback(projectPaths) ==
    \/ /\ analysisResult.isRunning
       /\ ReturnsAtOnce("runProjectAnalysis", FALSE, "running", now)
    \/ /\ ~analysisResult.isRunning
       /\ \E p \in PassIds, workspaceRoot \in WorkspaceRoots :
              StartsPass(p, "runProjectAnalysis", FALSE, "project", projectPaths,
                         workspaceRoot, now)

\* runProjectAnalysis(projectPaths), from the call to its first await or return
runProjectAnalysis(projectPaths) ==
    \/ /\ analysisResult.isRunning
       /\ ReturnsAtOnce("runProjectAnalysis", FALSE, "running", now)
    \/ /\ ~analysisResult.isRunning
       /\ analysisResult.lastUpdated = NullDate
       \* return this.runFullAnalysis(true)
       /\ \E p \in PassIds, workspaceRoot \in WorkspaceRoots :
              StartsPass(p, "runProjectAnalysis", TRUE, "full", <<>>, workspaceRoot, now)
    \/ /\ ~analysisResult.isRunning
       /\ analysisResult.lastUpdated # NullDate
       /\ \E p \in PassIds, workspaceRoot \in WorkspaceRoots :
              StartsPass(p, "runProjectAnalysis", FALSE, "project", projectPaths,
                         workspaceRoot, now)

\* ------------------------------------------------------------------------
\* The continuations of a pass, one per await
\* ------------------------------------------------------------------------
NewTask(target) ==
    [target |-> target, stage |-> "restore", warnings |-> <<>>,
     value |-> <<>>, reason |-> NoReason]

AvailSettle_ResetsTimestamp(p, available) ==
    /\ passes[p].pc = "avail"
    /\ fired' = 0
    /\ probe' = NoProbe
    /\ UNCHANGED nugetVars
    /\ lastCall' = NoCall
    /\ UNCHANGED <<now, callsLeft>>
    /\ IF ~available
       THEN /\ analysisResult' = [analysisResult EXCEPT !.error = NotFoundMessage,
                                                         !.lastUpdated = NullDate]
            /\ transitiveConstraints' = <<>>
            /\ passes' = [passes EXCEPT ![p].pc = "constraints",
                                        ![p].outcome = "notFound"]
       ELSE /\ UNCHANGED <<analysisResult, transitiveConstraints>>
            /\ IF passes[p].kind = "full"
               THEN passes' = [passes EXCEPT ![p].pc = "solution"]
               ELSE passes' = [passes EXCEPT
                        ![p].pc = "fetch",
                        ![p].tasks = Map(passes[p].projectPaths, NewTask),
                        ![p].fetched = {"restore"}]

\* await this.dotnetCli.isDotnetAvailable() has settled
AvailSettle(p, available) ==
    /\ passes[p].pc = "avail"
    /\ fired' = 0
    /\ probe' = NoProbe
    /\ UNCHANGED nugetVars
    /\ lastCall' = NoCall
    /\ UNCHANGED <<now, callsLeft>>
    /\ IF ~available
       THEN \* throw; catch sets the error; finally starts the constraint rebuild
            /\ analysisResult' = [analysisResult EXCEPT !.error = NotFoundMessage]
            /\ transitiveConstraints' = <<>>
            /\ passes' = [passes EXCEPT ![p].pc = "constraints",
                                        ![p].outcome = "notFound"]
       ELSE /\ UNCHANGED <<analysisResult, transitiveConstraints>>
            /\ IF passes[p].kind = "full"
               THEN passes' = [passes EXCEPT ![p].pc = "solution"]
               ELSE \* projectPaths.map(projectPath => this.runTransitiveAnalysis(...))
                    passes' = [passes EXCEPT
                        ![p].pc = "fetch",
                        ![p].tasks = Map(passes[p].projectPaths, NewTask),
                        ![p].fetched = {"restore"}]

\* await this.cpmManager.getSolutionPath() has settled; both analyses start
SolutionSettle(p, solutionPath) ==
    /\ passes[p].pc = "solution"
    /\ passes' = [passes EXCEPT ![p].pc = "fetch",
                                ![p].tasks = <<NewTask(solutionPath)>>,
                                ![p].vuln = [NoVuln EXCEPT !.stage = "pending"],
                                ![p].fetched = {"restore", "vulnerable"}]
    /\ fired' = 0
    /\ probe' = NoProbe
    /\ UNCHANGED nugetVars
    /\ lastCall' = NoCall
    /\ UNCHANGED <<analysisResult, transitiveConstraints, now, callsLeft>>

\* runTransitiveAnalysis: restoreAndGetWarnings(...).catch(() => []) has settled
RestoreSettle(p, i, fulfilled, warnings) ==
    /\ passes[p].pc = "fetch"
    /\ i \in DOMAIN passes[p].tasks
    /\ passes[p].tasks[i].stage = "restore"
    /\ passes' = [passes EXCEPT
           ![p].tasks[i].stage = "list",
           ![p].tasks[i].warnings = IF fulfilled THEN warnings ELSE <<>>,
           ![p].fetched = @ \cup {"list"}]
    /\ fired' = 0
    /\ probe' = NoProbe
    /\ UNCHANGED nugetVars
    /\ lastCall' = NoCall
    /\ UNCHANGED <<analysisResult, transitiveConstraints, now, callsLeft>>

\* runTransitiveAnalysis, from the warnings and the report to the conflicts,
\* for every answer the tool can give
runTransitiveAnalysis ==
    [warnings \in WarningLists, output \in Reports |->
        mergeConflicts(parseNu1608Warnings(warnings),
                       detectConflicts(output, getAllPackages))]

\* runTransitiveAnalysis: listTransitivePackages has settled
ListSettle(p, i, fulfilled, output, reason) ==
    /\ passes[p].pc = "fetch"
    /\ i \in DOMAIN passes[p].tasks
    /\ passes[p].tasks[i].stage = "list"
    /\ passes' = [passes EXCEPT ![p].tasks[i] =
           IF fulfilled
           THEN [@ EXCEPT !.stage = "fulfilled",
                          !.warnings = <<>>,
                          !.value = runTransitiveAnalysis[passes[p].tasks[i].warnings, output]]
           ELSE [@ EXCEPT !.stage = "rejected", !.warnings = <<>>, !.reason = reason]]
    /\ fired' = 0
    /\ probe' = NoProbe
    /\ UNCHANGED nugetVars
    /\ lastCall' = NoCall
    /\ UNCHANGED <<analysisResult, transitiveConstraints, now, callsLeft>>

\* runVulnerabilityAnalysis: listVulnerablePackages has settled
\* runVulnerabilityAnalysis: the records of each report the scan can return
runVulnerabilityAnalysis ==
    [output \in Reports |-> extractVulnerabilities(output)]

VulnSettle(p, fulfilled, output) ==
    /\ passes[p].pc = "fetch"
    /\ passes[p].vuln.stage = "pending"
    /\ passes' = [passes EXCEPT ![p].vuln =
           IF fulfilled
           THEN [@ EXCEPT !.stage = "fulfilled", !.value = runVulnerabilityAnalysis[output]]
           ELSE \* the reason is only logged
                [@ EXCEPT !.stage = "rejected"]]
    /\ fired' = 0
    /\ probe' = NoProbe
    /\ UNCHANGED nugetVars
    /\ lastCall' = NoCall
    /\ UNCHANGED <<analysisResult, transitiveConstraints, now, callsLeft>>

Settled_FulfilledOnly(stage) == stage \in {"fulfilled", "none"}

\* Promise.allSettled waits for every promise to fulfil or reject
Settled(stage) == stage \in {"fulfilled", "rejected", "none"}

\* errors.join('; ')
RECURSIVE Join(_)
Join(errors) ==
    IF Len(errors) = 1 THEN Head(errors)
    ELSE Head(errors) \o "; " \o Join(Tail(errors))

ErrorOf(errors) == IF Len(errors) > 0 THEN Join(errors) ELSE NULL

TransitiveErrors_NoParseFilter(tasks, prefix) ==
    Concat([i \in DOMAIN tasks |->
        IF tasks[i].stage = "rejected"
        THEN <<prefix \o tasks[i].reason.message>>
        ELSE <<>>])

\* the error entries of the settled transitive analyses
TransitiveErrors(tasks, prefix) ==
    Concat([i \in DOMAIN tasks |->
        IF tasks[i].stage = "rejected" /\ tasks[i].reason.code # "PARSE_ERROR"
        THEN <<prefix \o tasks[i].reason.message>>
        ELSE <<>>])

FullError_VulnJoined(tasks, vuln) ==
    ErrorOf(TransitiveErrors(tasks, "Transitive analysis: ")
            \o (IF vuln.stage = "rejected"
                THEN <<"Vulnerability analysis: failed">> ELSE <<>>))

\* the error a full pass surfaces: a rejected vulnerability scan is only logged
FullError(tasks, vuln) == ErrorOf(TransitiveErrors(tasks, "Transitive analysis: "))

\* Promise.allSettled has resolved: the results are stored, then the finally
\* block starts the constraint rebuild (index cleared, reads started)
Commit(p) ==
    /\ passes[p].pc = "fetch"
    /\ \A i \in DOMAIN passes[p].tasks : Settled(passes[p].tasks[i].stage)
    /\ Settled(passes[p].vuln.stage)
    /\ \E t \in ClockReadings :
       LET tasks == passes[p].tasks
           vuln == passes[p].vuln
       IN /\ now' = t
          /\ IF passes[p].kind = "full"
              THEN analysisResult' = [analysisResult EXCEPT
                       !.transitiveConflicts =
                           IF tasks[1].stage = "fulfilled" THEN tasks[1].value ELSE <<>>,
                       !.vulnerablePackages =
                           IF vuln.stage = "fulfilled" THEN vuln.value ELSE <<>>,
                       !.error = FullError(tasks, vuln),
                       !.lastUpdated = t]
              ELSE LET projectNames == Map(passes[p].projectPaths, ProjectNameOf)
                       allNewConflicts ==
                           Concat([i \in DOMAIN tasks |->
                               IF tasks[i].stage = "fulfilled" THEN tasks[i].value ELSE <<>>])
                   IN analysisResult' = [analysisResult EXCEPT
                          !.transitiveConflicts =
                              mergeProjectConflicts(@, allNewConflicts, projectNames),
                          !.vulnerablePackages =
                              mergeProjectVulnerabilities(@, <<>>, projectNames),
                          !.error = ErrorOf(TransitiveErrors(tasks, "Transitive: ")),
                          !.lastUpdated = t]
    /\ transitiveConstraints' = <<>>
    /\ passes' = [passes EXCEPT ![p].pc = "constraints", ![p].outcome = "committed"]
    /\ fired' = 0
    /\ probe' = NoProbe
    /\ UNCHANGED nugetVars
    /\ lastCall' = NoCall
    /\ UNCHANGED callsLeft

\* extractConstraintsFromAssets: the lock-file reads have settled; the index
\* is filled, the pass ends
ConstraintsSettle(p, assetResults) ==
    /\ passes[p].pc = "constraints"
    /\ transitiveConstraints' =
           extractConstraints(transitiveConstraints, assetResults, getAllPackages)
    /\ analysisResult' = [analysisResult EXCEPT !.isRunning = FALSE]
    /\ fired' = 1
    /\ probe' = [fn |-> "extractConstraintsFromAssets", done |-> TRUE,
                 assetResults |-> assetResults]
    /\ UNCHANGED nugetVars
    /\ passes' = [passes EXCEPT ![p] = IdlePass]
    /\ lastCall' = NoCall
    /\ UNCHANGED <<now, callsLeft>>

clearCache_KeepsIndex ==
    /\ callsLeft > 0
    /\ callsLeft' = callsLeft - 1
    /\ analysisResult' = EmptyResult
    /\ fired' = 1
    /\ probe' = NoProbe
    /\ UNCHANGED nugetVars
    /\ lastCall' = [op |-> "clearCache", force |-> FALSE, outcome |-> "none"]
    /\ UNCHANGED <<transitiveConstraints, passes, now>>

clearCache ==
    /\ callsLeft > 0
    /\ callsLeft' = callsLeft - 1
    /\ analysisResult' = EmptyResult
    /\ transitiveConstraints' = <<>>
    /\ fired' = 1
    /\ probe' = NoProbe
    /\ UNCHANGED nugetVars
    /\ lastCall' = [op |-> "clearCache", force |-> FALSE, outcome |-> "none"]
    /\ UNCHANGED <<passes, now>>

\* PackageAnalysisService.getConflictsForPackage etc. (pure reads)
\* the lookup with the names compared as they are written
getConflictsForPackage_CaseSensitive(packageName) ==
    LET Same(c) == c.packageId = packageName
    IN Filter(analysisResult.transitiveConflicts, Same)

getConflictsForPackage(packageName) ==
    LET Same(c) == toLowerCase(c.packageId) = toLowerCase(packageName)
    IN Filter(analysisResult.transitiveConflicts, Same)

getVulnerabilitiesForPackage(packageName) ==
    LET Same(v) == toLowerCase(v.packageId) = toLowerCase(packageName)
    IN Filter(analysisResult.vulnerablePackages, Same)

\* the entry as a list: empty for undefined
getConstraintsForPackage(packageName) ==
    LET HasKey(c) == c.key = toLowerCase(packageName)
    IN Filter(transitiveConstraints, HasKey)

\* what the reads of the two projects' lock files can give
AssetResultLists == {<<NoAssets, NoAssets>>, <<AssetsP, AssetsQ>>}

Next ==
    \/ \E force \in BOOLEAN : runFullAnalysis(force)
    \/ \E projectPaths \in ProjectPathInputs : runProjectAnalysis(projectPaths)
    \/ clearCache
    \/ \E p \in PassIds, available \in BOOLEAN : AvailSettle(p, available)
    \/ \E p \in PassIds, solutionPath \in SolutionPaths : SolutionSettle(p, solutionPath)
    \/ \E p \in PassIds, i \in 1..MaxProjectPaths, fulfilled \in BOOLEAN, warnings \in WarningLists :
           RestoreSettle(p, i, fulfilled, warnings)
    \/ \E p \in PassIds, i \in 1..MaxProjectPaths, output \in Reports :
           ListSettle(p, i, TRUE, output, NoReason)
    \/ \E p \in PassIds, i \in 1..MaxProjectPaths, reason \in ListFailures :
           ListSettle(p, i, FALSE, ReportEmpty, reason)
    \/ \E p \in PassIds, output \in VulnReports : VulnSettle(p, TRUE, output)
    \/ \E p \in PassIds : VulnSettle(p, FALSE, ReportEmpty)
    \/ \E p \in PassIds : Commit(p)
    \/ \E p \in PassIds, assetResults \in AssetResultLists : ConstraintsSettle(p, assetResults)

Spec == Init /\ [][Next]_vars

\* the continuations of pass p: every external call eventually settles
PassStep(p) ==
    \/ \E available \in BOOLEAN : AvailSettle(p, available)
    \/ \E solutionPath \in SolutionPaths : SolutionSettle(p, solutionPath)
    \/ \E i \in 1..MaxProjectPaths, fulfilled \in BOOLEAN, warnings \in WarningLists :
           RestoreSettle(p, i, fulfilled, warnings)
    \/ \E i \in 1..MaxProjectPaths, output \in Reports : ListSettle(p, i, TRUE, output, NoReason)
    \/ \E i \in 1..MaxProjectPaths, reason \in ListFailures :
           ListSettle(p, i, FALSE, ReportEmpty, reason)
    \/ \E output \in VulnReports : VulnSettle(p, TRUE, output)
    \/ VulnSettle(p, FALSE, ReportEmpty)
    \/ Commit(p)
    \/ \E assetResults \in AssetResultLists : ConstraintsSettle(p, assetResults)

LiveInit == Constructed /\ NuGetConstructed /\ callsLeft = MaxLiveCalls /\ probe = NoProbe

LiveSpec == LiveInit /\ [][Next]_vars /\ \A p \in PassIds : WF_vars(PassStep(p))

\* ------------------------------------------------------------------------
\* NuGetService.ensureVulnerabilityDb / loadVulnerabilityDb
\* ------------------------------------------------------------------------
\* vulnDbTtl = 30 * 60 * 1000
vulnDbTtl == 30 * 60 * 1000

\* what Date.now() can return to the NuGetService: the clock stands or has
\* advanced by the time to live
NuGetReadings == {t \in {now, now + vulnDbTtl} : t <= MaxTicks * vulnDbTtl}

\* this.vulnDb && Date.now() - this.vulnDbTimestamp < this.vulnDbTtl
DbFresh(t) == vulnDb # NoDb /\ t - vulnDbTimestamp < vulnDbTtl

\* the promises that have not settled
Pending == {l \in LoadIds : loads[l] = "pending"}

\* line 332: the database is fresh, the call returns at once
ReturnsFresh(c) ==
    /\ callers' = [callers EXCEPT ![c] = [pc |-> "returned", awaits |-> NoLoad]]
    /\ UNCHANGED <<vulnDbLoading, loads, db>>

\* line 335: the call returns the promise of the load in flight
JoinsLoad(c) ==
    /\ callers' = [callers EXCEPT ![c] = [pc |-> "joined", awaits |-> vulnDbLoading]]
    /\ UNCHANGED <<vulnDbLoading, loads, db>>

\* lines 337-339: the call starts loadVulnerabilityDb, which runs to its first
\* await and returns its promise, and awaits it
StartsLoad(c) ==
    \E l \in LoadIds :
        /\ loads[l] = "none"
        /\ \A k \in LoadIds : k < l => loads[k] # "none"
        /\ loads' = [loads EXCEPT ![l] = "pending"]
        /\ vulnDbLoading' = l
        /\ callers' = [callers EXCEPT ![c] = [pc |-> "started", awaits |-> l]]
        /\ UNCHANGED db

\* ensureVulnerabilityDb without the test of vulnDbLoading
ensureVulnerabilityDb_NoLatch(c) ==
    /\ callers[c].pc \in {"idle", "returned"}
    /\ \E t \in NuGetReadings :
          /\ now' = t
          /\ IF DbFresh(t) THEN ReturnsFresh(c) ELSE StartsLoad(c)
    /\ UNCHANGED <<vulnDb, vulnDbTimestamp>>
    /\ UNCHANGED <<analysisResult, transitiveConstraints, fired, passes, callsLeft,
                   lastCall, probe>>

\* ensureVulnerabilityDb, up to its return or its await
ensureVulnerabilityDb(c) ==
    /\ callers[c].pc \in {"idle", "returned"}
    /\ \E t \in NuGetReadings :
          /\ now' = t
          /\ IF DbFresh(t) THEN ReturnsFresh(c)
             ELSE IF vulnDbLoading # NoLoad THEN JoinsLoad(c)
             ELSE StartsLoad(c)
    /\ UNCHANGED <<vulnDb, vulnDbTimestamp>>
    /\ UNCHANGED <<analysisResult, transitiveConstraints, fired, passes, callsLeft,
                   lastCall, probe>>

\* loadVulnerabilityDb between two awaits: the index has arrived and db is
\* created (lines 348-351), or a page but the last has arrived and its entries
\* are added to db (lines 353-363); the next request is awaited
LoadPage(l) ==
    /\ loads[l] = "pending"
    /\ IF db[l] = NoDb
       THEN db' = [db EXCEPT ![l] = MapOf(<<>>)]
       ELSE /\ Len(db[l][1]) < PageCount - 1
            /\ db' = [db EXCEPT ![l] = MapOf(Append(db[l][1], Page(l, Len(db[l][1]) + 1)))]
    /\ UNCHANGED <<vulnDb, vulnDbTimestamp, vulnDbLoading, loads, callers, now>>
    /\ UNCHANGED <<analysisResult, transitiveConstraints, fired, passes, callsLeft,
                   lastCall, probe>>

\* the handler of a failed load that installs whatever db holds
LoadSettle_PublishesPartial(l, ok) ==
    /\ loads[l] = "pending"
    /\ loads' = [loads EXCEPT ![l] = "settled"]
    /\ \E t \in NuGetReadings :
          /\ now' = t
          /\ IF ok
             THEN /\ db[l] # NoDb /\ Len(db[l][1]) = PageCount - 1
                  /\ db' = [db EXCEPT ![l] = MapOf(Append(db[l][1], Page(l, PageCount)))]
                  /\ vulnDb' = db'[l] /\ vulnDbTimestamp' = t
             ELSE /\ UNCHANGED db
                  /\ vulnDb' = IF db[l] = NoDb THEN MapOf(<<>>) ELSE db[l]
                  /\ vulnDbTimestamp' = t
    /\ UNCHANGED <<vulnDbLoading, callers>>
    /\ UNCHANGED <<analysisResult, transitiveConstraints, fired, passes, callsLeft,
                   lastCall, probe>>

\* loadVulnerabilityDb from its last await to its end: the last page has
\* arrived, db is complete and installed (lines 353-366), or the request
\* awaited has failed (lines 368-374); the promise fulfils
LoadSettle(l, ok) ==
    /\ loads[l] = "pending"
    /\ loads' = [loads EXCEPT ![l] = "settled"]
    /\ \E t \in NuGetReadings :
          /\ now' = t
          /\ IF ok
             THEN /\ db[l] # NoDb /\ Len(db[l][1]) = PageCount - 1
                  /\ db' = [db EXCEPT ![l] = MapOf(Append(db[l][1], Page(l, PageCount)))]
                  /\ vulnDb' = db'[l] /\ vulnDbTimestamp' = t
             ELSE /\ UNCHANGED db
                  /\ IF vulnDb = NoDb
                     THEN vulnDb' = MapOf(<<>>) /\ vulnDbTimestamp' = t
                     ELSE UNCHANGED <<vulnDb, vulnDbTimestamp>>
    /\ UNCHANGED <<vulnDbLoading, callers>>
    /\ UNCHANGED <<analysisResult, transitiveConstraints, fired, passes, callsLeft,
                   lastCall, probe>>

\* checkVulnerabilities after its await: the entries it searches
checkVulnerabilities == IF vulnDb = NoDb THEN <<>> ELSE vulnDb[1]

\* lines 339-342: the caller that started the load resumes after its await,
\* resets vulnDbLoading and returns
StarterResumes(c) ==
    /\ callers[c].pc = "started"
    /\ loads[callers[c].awaits] = "settled"
    /\ vulnDbLoading' = NoLoad
    /\ callers' = [callers EXCEPT ![c].pc = "returned"]
    /\ UNCHANGED <<vulnDb, vulnDbTimestamp, loads, db, now>>
    /\ UNCHANGED <<analysisResult, transitiveConstraints, fired, passes, callsLeft,
                   lastCall, probe>>

\* the promise a joined caller returned is settled: its call is over
JoinerResumes(c) ==
    /\ callers[c].pc = "joined"
    /\ loads[callers[c].awaits] = "settled"
    /\ callers' = [callers EXCEPT ![c].pc = "returned"]
    /\ UNCHANGED <<vulnDb, vulnDbTimestamp, vulnDbLoading, loads, db, now>>
    /\ UNCHANGED <<analysisResult, transitiveConstraints, fired, passes, callsLeft,
                   lastCall, probe>>

NuGetInit == Constructed /\ NuGetConstructed /\ callsLeft = 0 /\ probe = NoProbe

NuGetNext ==
    \/ \E c \in CallerIds : ensureVulnerabilityDb(c)
    \/ \E l \in LoadIds : LoadPage(l)
    \/ \E l \in LoadIds : LoadSettle(l, TRUE)
    \/ \E l \in LoadIds : LoadSettle(l, FALSE)
    \/ \E c \in CallerIds : StarterResumes(c)
    \/ \E c \in CallerIds : JoinerResumes(c)

NuGetSpec == NuGetInit /\ [][NuGetNext]_vars

\* ------------------------------------------------------------------------
\* Calls of the pure helpers, one at a time, on arguments drawn from small sets
\* ------------------------------------------------------------------------
\* the sequences over S of length at most n
SeqsUpTo(S, n) == {<<>>} \cup UNION {[1..k -> S] : k \in 1..n}

Net6 == <<"n", "6">>
NameA == <<"A">>
NameB == <<"B">>
NameLowerB == <<"b">>

\* a TransitiveConflict
Conflict(packageId, transitiveVersion, framework, projects) ==
    [packageId |-> packageId, centralVersion |-> V1,
     transitiveVersion |-> transitiveVersion, transitiveParents |-> <<>>,
     projects |-> projects, framework |-> framework]

\* arguments of mergeConflicts
MergeRecords ==
    {Conflict(PkgX, V2, Net8, <<NameA>>), Conflict(PkgLowerX, V1, Net8, <<NameB>>),
     Conflict(PkgX, V2, Net6, <<NameA>>), Conflict(PkgY, V2, Net8, <<NameA>>)}

MergeProbes ==
    {[fn |-> "mergeConflicts", done |-> FALSE, result |-> <<>>,
      primary |-> primary, secondary |-> secondary] :
        primary \in SeqsUpTo(MergeRecords, MaxRecords),
        secondary \in SeqsUpTo(MergeRecords, MaxRecords)}

mergeConflictsCall ==
    /\ probe.fn = "mergeConflicts" /\ ~probe.done
    /\ probe' = [probe EXCEPT !.done = TRUE,
                              !.result = mergeConflicts(probe.primary, probe.secondary)]
    /\ UNCHANGED <<analysisResult, transitiveConstraints, fired, passes, now,
                   callsLeft, lastCall>>
    /\ UNCHANGED nugetVars

\* arguments of mergeProjectConflicts
ProjectRecords ==
    {Conflict(PkgLowerX, V2, Net8, <<NameB>>),
     Conflict(PkgX, V2, Net8, <<NameA, NameB>>), Conflict(PkgX, V2, Net6, <<NameLowerB>>),
     Conflict(PkgY, V2, Net8, <<NameB, NameA>>)}

AffectedLists == {<<>>, <<NameLowerB>>, <<NameA, NameB>>}

MergeProjectProbes ==
    {[fn |-> "mergeProjectConflicts", done |-> FALSE, result |-> <<>>,
      existing |-> existing, newResults |-> newResults, affected |-> affected] :
        existing \in SeqsUpTo(ProjectRecords, MaxRecords),
        newResults \in SeqsUpTo(ProjectRecords, MaxRecords),
        affected \in AffectedLists}

mergeProjectConflictsCall ==
    /\ probe.fn = "mergeProjectConflicts" /\ ~probe.done
    /\ probe' = [probe EXCEPT !.done = TRUE,
                              !.result = mergeProjectConflicts(probe.existing,
                                             probe.newResults, probe.affected)]
    /\ UNCHANGED <<analysisResult, transitiveConstraints, fired, passes, now,
                   callsLeft, lastCall>>
    /\ UNCHANGED nugetVars

\* reports for detectConflicts: projects with one framework and one
\* transitive package each; the same path under two frameworks stands for a
\* project with two target frameworks
V0 == <<"0", ".", "9">>
V3 == <<"3", ".", "0">>
V1Long == <<"1", ".", "0", ".", "0">>

DetectProject(path, framework, id, version) ==
    [path |-> path,
     frameworks |-> <<[framework |-> framework,
                       topLevelPackages |-> <<ListPkg(PkgP, V1, FALSE)>>,
                       transitivePackages |-> <<ListPkg(id, version, FALSE)>>]>>]

\* the k-th constrainer or parent name
NthName(k) == <<"P">> \o NatToChars(k)

\* a project whose framework lists the given top-level package ids
DetectProjectWith(path, framework, topLevelIds, id, version) ==
    [path |-> path,
     frameworks |-> <<[framework |-> framework,
                       topLevelPackages |->
                           [k \in DOMAIN topLevelIds |-> ListPkg(topLevelIds[k], V1, FALSE)],
                       transitivePackages |-> <<ListPkg(id, version, FALSE)>>]>>]

\* n top-level package ids that are not centrally managed
ManyTopLevel(n) == [k \in 1..n |-> NthName(k)]

DetectProjects ==
    {DetectProjectWith(PathA, Net8, <<PkgP, PkgY, PkgLowerX>>, PkgX, V2),
     DetectProjectWith(PathB, Net6, ManyTopLevel(MaxNames), PkgX, V2),
     DetectProject(PathA, Net8, PkgLowerX, V2),
     DetectProject(PathB, Net8, PkgX, V2),
     DetectProject(PathB, Net8, PkgX, V3),
     DetectProject(PathA, Net6, PkgX, V2),
     DetectProject(PathB, Net8, PkgX, V1),
     DetectProject(PathA, Net8, PkgX, V0),
     DetectProject(PathB, Net6, PkgX, V1Long),
     DetectProject(PathA, Net8, PkgP, V2),
     DetectProject(PathB, Net8, PkgY, V3)}

DetectProbes ==
    {[fn |-> "detectConflicts", done |-> FALSE, result |-> <<>>,
      output |-> [projects |-> projects]] :
        projects \in SeqsUpTo(DetectProjects, MaxRecords)}

detectConflictsCall ==
    /\ probe.fn = "detectConflicts" /\ ~probe.done
    /\ probe' = [probe EXCEPT !.done = TRUE,
                              !.result = detectConflicts(probe.output, getAllPackages)]
    /\ UNCHANGED <<analysisResult, transitiveConstraints, fired, passes, now,
                   callsLeft, lastCall>>
    /\ UNCHANGED nugetVars

\* what a restore warning says: its code, whether the message has the NU1608
\* shape, and the names and versions the message gives
Said(code, shaped, constrainer, packageId, required, resolved, project) ==
    [code |-> code, shaped |-> shaped, constrainer |-> constrainer,
     packageId |-> packageId, required |-> required, resolved |-> resolved,
     project |-> project]

\* the RestoreWarning that says d
WarningOf(d) ==
    [code |-> d.code,
     message |-> IF d.shaped
                 THEN <<d.constrainer, V1, WRequires, d.packageId, <<"(", "=">>,
                        d.required \o <<")">>, WBut, WVersion, d.packageId,
                        d.resolved, WWas, WResolved \o <<".">>>>
                 ELSE <<d.constrainer, V1, WRequires, d.packageId, d.required>>,
     project |-> <<"s", "/">> \o d.project \o CsprojExt]

PkgQ == <<"Q">>
NU1701 == "NU1701"

WarningKinds ==
    {Said(NU1608, TRUE, PkgP, PkgX, V1, V2, NameB),
     Said(NU1608, TRUE, PkgQ, PkgLowerX, V3, V2, NameA),
     Said(NU1608, TRUE, PkgP, PkgX, V1, V2, NameA),
     Said(NU1701, TRUE, PkgQ, PkgX, V1, V2, NameA),
     Said(NU1608, FALSE, PkgQ, PkgX, V1, V2, NameA),
     Said(NU1608, TRUE, PkgP, PkgY, V2, V3, NameB)}


\* n warnings about X that name m constrainers in turn
ManyWarnings(n, m) ==
    [i \in 1..n |-> Said(NU1608, TRUE, NthName(((i - 1) % m) + 1),
                         IF i % 2 = 0 THEN PkgLowerX ELSE PkgX, V1, V2, NameB)]

SaidLists ==
    SeqsUpTo(WarningKinds, MaxRecords)
        \cup {ManyWarnings(n, m) : n \in 1..MaxNames, m \in 1..MaxNames}

Nu1608Probes ==
    {[fn |-> "parseNu1608Warnings", done |-> FALSE, result |-> <<>>, said |-> said] :
        said \in SaidLists}

parseNu1608WarningsCall ==
    /\ probe.fn = "parseNu1608Warnings" /\ ~probe.done
    /\ probe' = [probe EXCEPT !.done = TRUE,
                              !.result = parseNu1608Warnings(
                                  [i \in DOMAIN probe.said |-> WarningOf(probe.said[i])])]
    /\ UNCHANGED <<analysisResult, transitiveConstraints, fired, passes, now,
                   callsLeft, lastCall>>
    /\ UNCHANGED nugetVars

\* an edge of the lock graph: parent -> dependency, with the version and the
\* form of the range ("exact" [v], "pair" [v, v], "minimum" v, "interval" [v, 9.0))
Edge(parentPkg, depName, version, form) ==
    [parentPkg |-> parentPkg, depName |-> depName, version |-> version, form |-> form]

\* the version-range string of an edge
RangeOf(e) ==
    CASE e.form = "exact" -> <<"[">> \o e.version \o <<"]">>
      [] e.form = "pair" -> <<"[">> \o e.version \o <<",", " ">> \o e.version \o <<"]">>
      [] e.form = "minimum" -> e.version
      [] e.form = "interval" -> <<"[">> \o e.version \o <<",", " ", "9", ".", "0", ")">>

\* the parsed project.assets.json whose one target holds the edges
AssetsOf(edges) ==
    [parsed |-> TRUE,
     targets |-> <<[i \in DOMAIN edges |->
                      [key |-> edges[i].parentPkg \o <<"/", "1">>,
                       dependencies |-> <<[name |-> edges[i].depName,
                                           range |-> RangeOf(edges[i])]>>]]>>]

PkgZ == <<"Z">>

EdgeKinds ==
    {Edge(PkgP, PkgX, V1, "exact"),
     Edge(PkgQ, PkgLowerX, V2, "minimum"),
     Edge(PkgP, PkgX, V3, "minimum"),
     Edge(PkgQ, PkgX, V3, "pair"),
     Edge(PkgLowerX, PkgX, V2, "exact"),
     Edge(PkgP, PkgZ, V1, "exact"),
     Edge(PkgQ, PkgY, V1, "interval")}

\* n edges to X from m parents in turn
ManyEdges(n, m) ==
    [i \in 1..n |-> Edge(NthName(((i - 1) % m) + 1), PkgX, V1, "minimum")]

EdgeLists ==
    SeqsUpTo(EdgeKinds, MaxEdges)
        \cup {ManyEdges(n, m) : n \in 1..MaxNames, m \in 1..MaxNames}

ConstraintProbes ==
    {[fn |-> "extractConstraints", done |-> FALSE, result |-> <<>>, edges |-> edges] :
        edges \in EdgeLists}

\* the rebuild on a cleared index, one lock file missing and one read
extractConstraintsCall ==
    /\ probe.fn = "extractConstraints" /\ ~probe.done
    /\ probe' = [probe EXCEPT !.done = TRUE,
                              !.result = extractConstraints(<<>>,
                                  <<NoAssets, AssetsOf(probe.edges)>>, getAllPackages)]
    /\ UNCHANGED <<analysisResult, transitiveConstraints, fired, passes, now,
                   callsLeft, lastCall>>
    /\ UNCHANGED nugetVars

\* reports of the vulnerability scan: X 2.0, X 3.0 and Y 3.0 carry an advisory
VulnProjects ==
    {ListProject(PathA, <<ListPkg(PkgX, V2, TRUE)>>, <<>>),
     ListProject(PathB, <<>>, <<ListPkg(PkgLowerX, V2, TRUE)>>),
     ListProject(PathA, <<ListPkg(PkgP, V1, FALSE)>>, <<ListPkg(PkgX, V3, TRUE)>>),
     ListProject(PathB, <<ListPkg(PkgX, V2, TRUE)>>, <<ListPkg(PkgY, V1, FALSE)>>),
     ListProject(PathA, <<>>, <<ListPkg(PkgX, V2, TRUE)>>),
     ListProject(PathB, <<ListPkg(PkgY, V3, TRUE)>>, <<ListPkg(PkgX, V2, TRUE)>>)}

VulnProbes ==
    {[fn |-> "extractVulnerabilities", done |-> FALSE, result |-> <<>>,
      output |-> [projects |-> projects]] :
        projects \in SeqsUpTo(VulnProjects, MaxRecords)}

extractVulnerabilitiesCall ==
    /\ probe.fn = "extractVulnerabilities" /\ ~probe.done
    /\ probe' = [probe EXCEPT !.done = TRUE,
                              !.result = extractVulnerabilities(probe.output)]
    /\ UNCHANGED <<analysisResult, transitiveConstraints, fired, passes, now,
                   callsLeft, lastCall>>
    /\ UNCHANGED nugetVars

\* version strings handed to compareVersions
V1_9_0 == <<"1", ".", "9", ".", "0">>
V1_10_0 == <<"1", ".", "1", "0", ".", "0">>
V1Beta == <<"1", ".", "0", "-", "b", "e", "t", "a">>
V1_0_0_1 == <<"1", ".", "0", ".", "0", ".", "1">>

VersionTexts == {<<>>, V0, V1, V1Long, V1Beta, V1_0_0_1, V1_9_0, V1_10_0, V2}

CompareProbes ==
    {[fn |-> "compareVersions", done |-> FALSE, result |-> <<>>, a |-> a, b |-> b, c |-> c] :
        a \in VersionTexts, b \in VersionTexts, c \in VersionTexts}

\* the five comparisons among three versions
compareVersionsCall ==
    /\ probe.fn = "compareVersions" /\ ~probe.done
    /\ probe' = [probe EXCEPT !.done = TRUE,
                              !.result = [aa |-> compareVersions(probe.a, probe.a),
                                          ab |-> compareVersions(probe.a, probe.b),
                                          ba |-> compareVersions(probe.b, probe.a),
                                          bc |-> compareVersions(probe.b, probe.c),
                                          ac |-> compareVersions(probe.a, probe.c)]]
    /\ UNCHANGED <<analysisResult, transitiveConstraints, fired, passes, now,
                   callsLeft, lastCall>>
    /\ UNCHANGED nugetVars

\* a range text: the brackets, the bounds (empty when absent), blanks or not
RangeSaid(open, lower, upper, close, blanks) ==
    [shaped |-> TRUE, open |-> open, lower |-> lower, upper |-> upper,
     close |-> close, blanks |-> blanks]

Blanks(on) == IF on THEN <<" ">> ELSE <<>>

\* the text of a range; a text without the range shape stands for itself
RangeText(r) ==
    IF r.shaped
    THEN Blanks(r.blanks) \o <<r.open>> \o Blanks(r.blanks) \o r.lower \o Blanks(r.blanks)
             \o <<",", " ">> \o r.upper \o Blanks(r.blanks) \o <<r.close>> \o Blanks(r.blanks)
    ELSE r.text

BoundTexts == {<<>>, V1, V2}

ShapedRanges ==
    {RangeSaid(open, lower, upper, close, blanks) :
        open \in {"[", "("}, lower \in BoundTexts, upper \in BoundTexts,
        close \in {"]", ")"}, blanks \in BOOLEAN}

\* bare version, empty text, exact form without comma, no closing bracket,
\* no opening bracket, a word
UnshapedRanges ==
    {[shaped |-> FALSE, text |-> text] :
        text \in {V1, <<>>, <<"[">> \o V1 \o <<"]">>, <<"[">> \o V1 \o <<",", " ">> \o V2,
                  V1 \o <<",", " ">> \o V2 \o <<"]">>, <<"i", "n", "v", "a", "l", "i", "d">>}}

RangeProbes ==
    {[fn |-> "versionInRange", done |-> FALSE, result |-> FALSE,
      version |-> version, range |-> range] :
        version \in {V0, V1, V1_9_0, V2, V3},
        range \in ShapedRanges \cup UnshapedRanges}

versionInRangeCall ==
    /\ probe.fn = "versionInRange" /\ ~probe.done
    /\ probe' = [probe EXCEPT !.done = TRUE,
                              !.result = versionInRange(probe.version, RangeText(probe.range))]
    /\ UNCHANGED <<analysisResult, transitiveConstraints, fired, passes, now,
                   callsLeft, lastCall>>
    /\ UNCHANGED nugetVars

\* a version-range string of a lock file: its form, its versions, blanks or not
Written(form, v, w, blanks) == [form |-> form, v |-> v, w |-> w, blanks |-> blanks]

\* the text of a written range
WrittenText(r) ==
    LET b == Blanks(r.blanks) IN
    CASE r.form = "exact" -> b \o <<"[">> \o b \o r.v \o b \o <<"]">> \o b
      [] r.form = "pair" -> b \o <<"[">> \o r.v \o <<",">> \o b \o r.w \o b \o <<"]">> \o b
      [] r.form = "minimum" -> b \o r.v \o b
      [] r.form = "halfOpen" -> b \o <<"[">> \o r.v \o <<",", " ">> \o r.w \o <<")">> \o b
      [] r.form = "open" -> b \o <<"(">> \o b \o r.v \o <<",", " ">> \o r.w \o <<")">> \o b
      [] r.form = "below" -> b \o <<"(", ",", " ">> \o r.w \o <<")">> \o b

WrittenRanges ==
    {Written(form, v, w, blanks) :
        form \in {"exact", "pair", "minimum", "halfOpen", "open", "below"},
        v \in {V1, V2, V1Beta}, w \in {V1, V2, V1Beta}, blanks \in BOOLEAN}

ParseRangeProbes ==
    {[fn |-> "parseVersionRange", done |-> FALSE, result |-> <<>>, range |-> range] :
        range \in WrittenRanges}

parseVersionRangeCall ==
    /\ probe.fn = "parseVersionRange" /\ ~probe.done
    /\ probe' = [probe EXCEPT !.done = TRUE,
                              !.result = parseVersionRange(WrittenText(probe.range))]
    /\ UNCHANGED <<analysisResult, transitiveConstraints, fired, passes, now,
                   callsLeft, lastCall>>
    /\ UNCHANGED nugetVars

HelperProbes == MergeProbes \cup MergeProjectProbes \cup DetectProbes \cup Nu1608Probes
                    \cup ConstraintProbes \cup VulnProbes \cup CompareProbes
                    \cup RangeProbes \cup ParseRangeProbes

HelperInit == Constructed /\ NuGetConstructed /\ callsLeft = 0 /\ probe \in HelperProbes

HelperNext ==
    \/ mergeConflictsCall
    \/ mergeProjectConflictsCall
    \/ detectConflictsCall
    \/ parseNu1608WarningsCall
    \/ extractConstraintsCall
    \/ extractVulnerabilitiesCall
    \/ compareVersionsCall
    \/ versionInRangeCall
    \/ parseVersionRangeCall

HelperSpec == HelperInit /\ [][HelperNext]_vars

\* ------------------------------------------------------------------------
\* Properties
\* ------------------------------------------------------------------------
FullCommitStep(p) ==
    passes[p].pc = "fetch" /\ passes[p].kind = "full" /\ passes'[p].pc = "constraints"

ProjectCommitStep(p) ==
    passes[p].pc = "fetch" /\ passes[p].kind = "project" /\ passes'[p].pc = "constraints"

PublishedResults ==
    <<analysisResult.transitiveConflicts, analysisResult.vulnerablePackages,
      analysisResult.lastUpdated>>

QueryNames == {PkgX, PkgLowerX, PkgY, PkgP}

\* C1: under every interleaving of runFullAnalysis, runProjectAnalysis and
\* clearCache, at most one analysis pass is in flight at any time.
C1_OnePassInFlight == Cardinality({p \in PassIds : InFlight(p)}) <= 1

\* C2 (as claimed): every step after which a pass is in flight leaves
\* transitiveConflicts, vulnerablePackages, lastUpdated and error as they were;
\* they change only in the step that ends the pass.
C2_VisibleOnlyAtEnd ==
    [][(\E p \in PassIds : passes'[p].pc # "idle")
         => UNCHANGED <<PublishedResults, analysisResult.error>>]_vars

\* C2 (amended): transitiveConflicts, vulnerablePackages and lastUpdated are
\* changed by a pass only in its commit step, the one step that follows the
\* settling of all its fetches, which writes them together with lastUpdated
\* = now; every other step except clearCache leaves the three unchanged.
C2_AtomicCommit ==
    [][\/ lastCall'.op = "clearCache"
       \/ /\ \E p \in PassIds : FullCommitStep(p) \/ ProjectCommitStep(p)
          /\ analysisResult'.lastUpdated = now'
       \/ UNCHANGED PublishedResults]_vars

\* a committed pass whose results are readable while isRunning is still true
C2_Witness ==
    \E p \in PassIds :
        /\ passes[p].pc = "constraints" /\ passes[p].outcome = "committed"
        /\ analysisResult.isRunning
        /\ analysisResult.transitiveConflicts # <<>>
        /\ analysisResult.lastUpdated # NullDate

\* C3: clearCache leaves the empty Idle shape, an empty constraint index and
\* one notification; right after it the three per-package queries find
\* nothing for any name.
C3_ClearCacheResets ==
    [][lastCall'.op = "clearCache" =>
          /\ analysisResult'.transitiveConflicts = <<>>
          /\ analysisResult'.vulnerablePackages = <<>>
          /\ analysisResult'.lastUpdated = NullDate
          /\ analysisResult'.isRunning = FALSE
          /\ analysisResult'.error = NULL
          /\ transitiveConstraints' = <<>>
          /\ fired' = 1
          /\ \A name \in QueryNames :
                /\ getConflictsForPackage(name)' = <<>>
                /\ getVulnerabilitiesForPackage(name)' = <<>>
                /\ getConstraintsForPackage(name)' = <<>>]_vars

\* the cache has just been cleared while a pass is in flight
C3_Witness ==
    /\ lastCall.op = "clearCache"
    /\ analysisResult = EmptyResult /\ transitiveConstraints = <<>>
    /\ \E p \in PassIds : InFlight(p)

\* C4: runFullAnalysis(false) with a cached result younger than 10 minutes
\* returns the cache and changes nothing: no field of the result, no entry of
\* the constraint index, no pass or fetch is started, no observer is notified.
C4_FreshCacheUntouched ==
    [][(/\ lastCall'.op = "runFullAnalysis" /\ ~lastCall'.force
        /\ analysisResult.lastUpdated # NullDate
        /\ now' - analysisResult.lastUpdated < 10 * 60 * 1000)
         => /\ lastCall'.outcome = "cached"
            /\ fired' = 0
            /\ UNCHANGED <<analysisResult, transitiveConstraints, passes>>]_vars

C4_Witness ==
    /\ lastCall.op = "runFullAnalysis" /\ lastCall.outcome = "cached"
    /\ analysisResult.lastUpdated # NullDate
    /\ analysisResult.transitiveConflicts # <<>>

\* C5: every pass that starts eventually ends, and the step that ends it sets
\* isRunning to false and notifies the observers.
C5_PassEnds ==
    /\ \A p \in PassIds : (InFlight(p) ~> ~InFlight(p))
    /\ [][\A p \in PassIds :
            (InFlight(p) /\ passes'[p].pc = "idle")
              => (analysisResult'.isRunning = FALSE /\ fired' = 1)]_vars

\* a pass has just ended with its final notification
C5_Witness ==
    /\ lastCall = NoCall /\ fired = 1
    /\ ~analysisResult.isRunning
    /\ analysisResult.error # NULL

\* C6: the commit of a full pass whose vulnerability scan was rejected and
\* whose dependency report was fulfilled stores no vulnerable package, the
\* reconciled conflicts of the report, a null error and lastUpdated = now.
C6_VulnFailureNotFatal ==
    [][\A p \in PassIds :
          (/\ FullCommitStep(p)
           /\ passes[p].tasks[1].stage = "fulfilled"
           /\ passes[p].vuln.stage = "rejected")
            => /\ analysisResult'.vulnerablePackages = <<>>
               /\ analysisResult'.transitiveConflicts = passes[p].tasks[1].value
               /\ analysisResult'.error = NULL
               /\ analysisResult'.lastUpdated = now'
               /\ analysisResult'.lastUpdated # NullDate]_vars

C6_Witness ==
    \E p \in PassIds :
        /\ passes[p].pc = "constraints" /\ passes[p].kind = "full"
        /\ passes[p].outcome = "committed"
        /\ passes[p].vuln.stage = "rejected"
        /\ passes[p].tasks[1].stage = "fulfilled"
        /\ passes[p].tasks[1].value # <<>>
        /\ analysisResult.transitiveConflicts = passes[p].tasks[1].value
        /\ analysisResult.error = NULL

\* C7: the commit of a full pass whose dependency report was rejected stores
\* no conflict and the result of the vulnerability scan; the error is null
\* for a parse error and carries the failure message otherwise.
C7_ReportFailure ==
    [][\A p \in PassIds :
          (FullCommitStep(p) /\ passes[p].tasks[1].stage = "rejected")
            => /\ analysisResult'.transitiveConflicts = <<>>
               /\ analysisResult'.vulnerablePackages =
                      (IF passes[p].vuln.stage = "fulfilled"
                       THEN passes[p].vuln.value ELSE <<>>)
               /\ analysisResult'.error =
                      (IF passes[p].tasks[1].reason.code = "PARSE_ERROR"
                       THEN NULL
                       ELSE "Transitive analysis: " \o passes[p].tasks[1].reason.message)]_vars

C7_Witness ==
    \E p \in PassIds :
        /\ passes[p].pc = "constraints" /\ passes[p].kind = "full"
        /\ passes[p].outcome = "committed"
        /\ passes[p].tasks[1].stage = "rejected"
        /\ passes[p].tasks[1].reason.code = "PARSE_ERROR"
        /\ passes[p].vuln.stage = "fulfilled"
        /\ analysisResult.vulnerablePackages # <<>>
        /\ analysisResult.transitiveConflicts = <<>>
        /\ analysisResult.error = NULL

\* C8: when the tool is found unavailable the pass has invoked no restore,
\* list or vulnerability fetch and invokes none later; that step sets the
\* error to the tool-not-found message and the step that ends the pass sets
\* isRunning to false; these two steps and the step that started the pass,
\* which are all the steps of such a pass, leave transitiveConflicts,
\* vulnerablePackages and lastUpdated as they were.
C8_ToolNotFound ==
    [][\A p \in PassIds :
          /\ (~InFlight(p) /\ passes'[p].pc = "avail")
               => /\ UNCHANGED PublishedResults
                  /\ passes'[p].fetched = {}
          /\ (passes[p].pc = "avail" /\ passes'[p].outcome = "notFound")
               => /\ analysisResult'.error = NotFoundMessage
                  /\ UNCHANGED PublishedResults
                  /\ passes'[p].pc = "constraints"
                  /\ passes'[p].fetched = {}
          /\ (passes[p].outcome = "notFound" /\ passes'[p].pc = "idle")
               => /\ analysisResult'.isRunning = FALSE
                  /\ UNCHANGED <<PublishedResults, analysisResult.error>>
                  /\ passes[p].fetched = {}]_vars

\* the tool was not found in a pass that follows a successful one
C8_Witness ==
    \E p \in PassIds :
        /\ passes[p].outcome = "notFound" /\ passes[p].pc = "constraints"
        /\ passes[p].fetched = {}
        /\ analysisResult.error = NotFoundMessage
        /\ analysisResult.lastUpdated # NullDate
        /\ analysisResult.vulnerablePackages # <<>>

\* C9: runProjectAnalysis with no pass running and lastUpdated null starts a
\* forced full pass; a full pass fetches the dependency report for the
\* solution, not for a project, and runs the vulnerability scan.
C9_FallbackToFull ==
    /\ [][(/\ lastCall'.op = "runProjectAnalysis"
           /\ ~analysisResult.isRunning
           /\ analysisResult.lastUpdated = NullDate)
            => /\ lastCall'.outcome = "started" /\ lastCall'.force
               /\ \E p \in PassIds :
                     /\ ~InFlight(p) /\ passes'[p].pc # "idle"
                     /\ passes'[p].kind = "full"]_vars
    /\ [](\A p \in PassIds :
            (passes[p].kind = "full" /\ passes[p].pc = "fetch")
              => /\ Len(passes[p].tasks) = 1
                 /\ passes[p].tasks[1].target \in SolutionPaths
                 /\ passes[p].vuln.stage # "none"
                 /\ "vulnerable" \in passes[p].fetched)

C9_Witness ==
    /\ lastCall.op = "runProjectAnalysis" /\ lastCall.outcome = "started"
    /\ \E p \in PassIds : passes[p].kind = "full" /\ passes[p].pc = "avail"

\* C10 (as claimed): the commit of an incremental pass leaves the cached
\* vulnerablePackages as it was.
C10_VulnerabilitiesKept ==
    [][\A p \in PassIds :
          ProjectCommitStep(p) => UNCHANGED analysisResult.vulnerablePackages]_vars

\* C10 (amended): an incremental pass invokes no vulnerability scan; its
\* commit removes the changed projects (names compared ignoring case) from
\* every cached vulnerability record, drops the records left without a
\* project, keeps the others in order and otherwise unchanged, adds none.
C10_AffectedProjectsStripped ==
    [][\A p \in PassIds :
          ProjectCommitStep(p) =>
            LET old == analysisResult.vulnerablePackages
                new == analysisResult'.vulnerablePackages
                affected == {toLowerCase(ProjectNameOf(passes[p].projectPaths[i])) :
                                i \in DOMAIN passes[p].projectPaths}
                Unaffected(name) == toLowerCase(name) \notin affected
                kept == {i \in DOMAIN old :
                            \E j \in DOMAIN old[i].projects : Unaffected(old[i].projects[j])}
                Rank(i) == Cardinality({k \in kept : k <= i})
            IN /\ passes[p].vuln.stage = "none"
               /\ "vulnerable" \notin passes[p].fetched
               /\ Len(new) = Cardinality(kept)
               /\ \A i \in kept :
                     new[Rank(i)] = [old[i] EXCEPT !.projects = SelectSeq(@, Unaffected)]]_vars

\* an incremental pass has committed and left records of unchanged projects
C10_Witness ==
    \E p \in PassIds :
        /\ passes[p].kind = "project" /\ passes[p].pc = "constraints"
        /\ passes[p].outcome = "committed"
        /\ analysisResult.vulnerablePackages # <<>>
        /\ \A i \in DOMAIN analysisResult.vulnerablePackages :
              ~Includes(analysisResult.vulnerablePackages[i].projects, <<"B">>)

\* the probe is a finished call of fn
Returned(fn) == probe.fn = fn /\ probe.done

\* number of the indices of S that are at most i
Rank(S, i) == Cardinality({k \in S : k <= i})

\* C12 (as claimed): mergeConflicts returns the primary records, then
\* exactly the secondary records whose package id, ignoring case, does not
\* occur in primary, in their order.
C12_SecondaryNotInPrimary ==
    Returned("mergeConflicts") =>
        LET primary == probe.primary
            secondary == probe.secondary
            result == probe.result
            primaryIds == {toLowerCase(primary[i].packageId) : i \in DOMAIN primary}
            kept == {j \in DOMAIN secondary :
                        toLowerCase(secondary[j].packageId) \notin primaryIds}
        IN /\ Len(result) = Len(primary) + Cardinality(kept)
           /\ \A i \in DOMAIN primary : result[i] = primary[i]
           /\ \A j \in kept : result[Len(primary) + Rank(kept, j)] = secondary[j]

\* C12 (amended): mergeConflicts returns the primary records unchanged and
\* in their order, followed by the secondary records whose package id,
\* ignoring case, occurs neither in primary nor in an earlier secondary
\* record, in their original order.
C12_FirstPerPackage ==
    Returned("mergeConflicts") =>
        LET primary == probe.primary
            secondary == probe.secondary
            result == probe.result
            primaryIds == {toLowerCase(primary[i].packageId) : i \in DOMAIN primary}
            kept == {j \in DOMAIN secondary :
                        /\ toLowerCase(secondary[j].packageId) \notin primaryIds
                        /\ \A k \in 1..(j - 1) :
                              toLowerCase(secondary[k].packageId) #
                                  toLowerCase(secondary[j].packageId)}
        IN /\ Len(result) = Len(primary) + Cardinality(kept)
           /\ \A i \in DOMAIN primary : result[i] = primary[i]
           /\ \A j \in kept : result[Len(primary) + Rank(kept, j)] = secondary[j]

\* a secondary record dropped for primary, one dropped for an earlier
\* secondary record of another framework, and one kept
C12_Witness ==
    /\ Returned("mergeConflicts")
    /\ probe.primary = <<Conflict(PkgY, V2, Net8, <<NameA>>)>>
    /\ probe.secondary = <<Conflict(PkgX, V2, Net8, <<NameA>>),
                           Conflict(PkgX, V2, Net6, <<NameA>>)>>
    /\ Len(probe.result) = 2

\* the set of the elements of a list
Range(seq) == {seq[i] : i \in DOMAIN seq}

Occurrences == TransitiveEntries(probe.output)

\* the manifest declares the package of occurrence e at a strictly lower version
IsFlagged(e) ==
    \E i \in DOMAIN getAllPackages :
        /\ toLowerCase(getAllPackages[i].name) = toLowerCase(e.pkg.id)
        /\ compareVersions(getAllPackages[i].version, e.pkg.resolvedVersion) < 0

\* record c is the record of the (lowercase id, framework) of occurrence e
RecordOf(c, e) ==
    /\ toLowerCase(c.packageId) = toLowerCase(e.pkg.id)
    /\ c.framework = e.framework

\* record c lists the project of occurrence e
Lists(c, e) == RecordOf(c, e) /\ e.projectName \in Range(c.projects)

\* a package is listed for a project and framework exactly when the report
\* holds a flagged occurrence of it for that project and framework
FlaggingIsExact ==
    \A k \in DOMAIN Occurrences :
        (\E q \in DOMAIN probe.result : Lists(probe.result[q], Occurrences[k]))
        <=> (\E j \in DOMAIN Occurrences :
                /\ toLowerCase(Occurrences[j].pkg.id) = toLowerCase(Occurrences[k].pkg.id)
                /\ Occurrences[j].framework = Occurrences[k].framework
                /\ Occurrences[j].projectName = Occurrences[k].projectName
                /\ IsFlagged(Occurrences[j]))

\* every record carries the declared name and version of its package
CarriesDeclared ==
    \A q \in DOMAIN probe.result :
        \E i \in DOMAIN getAllPackages :
            /\ probe.result[q].packageId = getAllPackages[i].name
            /\ probe.result[q].centralVersion = getAllPackages[i].version

\* C13 (as stated): detectConflicts flags a transitive package iff the manifest
\* declares it (ignoring case) at a strictly lower version, and the record that
\* flags an occurrence carries the declared version and the resolved version of
\* that occurrence.
C13_RecordCarriesResolved ==
    Returned("detectConflicts") =>
        /\ FlaggingIsExact
        /\ CarriesDeclared
        /\ \A k \in DOMAIN Occurrences : \A q \in DOMAIN probe.result :
              (IsFlagged(Occurrences[k]) /\ Lists(probe.result[q], Occurrences[k]))
                  => probe.result[q].transitiveVersion = Occurrences[k].pkg.resolvedVersion

\* C13 (amended): detectConflicts flags a transitive package iff the manifest
\* declares it (ignoring case) at a strictly lower version; a record carries the
\* declared version, and as transitiveVersion the resolved version of the first
\* flagged occurrence of its (package, framework) in report order.
C13_FlaggedIffCentralLower ==
    Returned("detectConflicts") =>
        /\ FlaggingIsExact
        /\ CarriesDeclared
        /\ \A q \in DOMAIN probe.result :
              \E k \in DOMAIN Occurrences :
                  /\ IsFlagged(Occurrences[k]) /\ RecordOf(probe.result[q], Occurrences[k])
                  /\ \A j \in 1..(k - 1) :
                        ~(IsFlagged(Occurrences[j]) /\ RecordOf(probe.result[q], Occurrences[j]))
                  /\ probe.result[q].transitiveVersion = Occurrences[k].pkg.resolvedVersion

\* two projects resolve X under net8 at 2.0 and at 3.0 against a central 1.0:
\* one record, carrying 2.0, lists both
C13_Witness ==
    /\ Returned("detectConflicts")
    /\ probe.output.projects = <<DetectProject(PathA, Net8, PkgLowerX, V2),
                                 DetectProject(PathB, Net8, PkgX, V3)>>
    /\ Len(probe.result) = 1
    /\ probe.result[1].centralVersion = V1
    /\ probe.result[1].transitiveVersion = V2
    /\ probe.result[1].projects = <<NameA, NameB>>

\* C14: detectConflicts returns at most one record per (lowercase packageId,
\* framework); that record lists every project in which the conflicting package
\* occurs under the framework, each exactly once.
C14_OneRecordPerKey ==
    Returned("detectConflicts") =>
        /\ \A q1, q2 \in DOMAIN probe.result :
              (/\ toLowerCase(probe.result[q1].packageId) = toLowerCase(probe.result[q2].packageId)
               /\ probe.result[q1].framework = probe.result[q2].framework) => q1 = q2
        /\ \A q \in DOMAIN probe.result :
              \A i, j \in DOMAIN probe.result[q].projects :
                  probe.result[q].projects[i] = probe.result[q].projects[j] => i = j
        /\ \A k \in DOMAIN Occurrences :
              IsFlagged(Occurrences[k]) =>
                  \E q \in DOMAIN probe.result : Lists(probe.result[q], Occurrences[k])

\* the same conflicting package and framework in projects B and A
C14_Witness ==
    /\ Returned("detectConflicts")
    /\ probe.output.projects = <<DetectProject(PathB, Net8, PkgX, V2),
                                 DetectProject(PathA, Net8, PkgLowerX, V2)>>
    /\ Len(probe.result) = 1
    /\ probe.result[1].projects = <<NameB, NameA>>

\* ------------------------------------------------------------------------
\* parseNu1608Warnings
\* ------------------------------------------------------------------------
\* the warnings that have code NU1608 and the message shape
Counted == {i \in DOMAIN probe.said : probe.said[i].code = NU1608 /\ probe.said[i].shaped}

\* the counted warnings about the package of warning i
GroupOf(i) ==
    {j \in Counted : toLowerCase(probe.said[j].packageId) = toLowerCase(probe.said[i].packageId)}

\* the first counted warning of each package
FirstOfPackage == {i \in Counted : \A j \in GroupOf(i) : i <= j}

\* the warnings of group G that bring a new value of field f
FirstSayers(G, f) == {j \in G : \A k \in G : k < j => probe.said[k][f] # probe.said[j][f]}

\* list holds the values of field f of group G, each once, in first-seen order
InFirstSeenOrder(list, G, f) ==
    /\ Len(list) = Cardinality(FirstSayers(G, f))
    /\ \A j \in FirstSayers(G, f) : list[Rank(FirstSayers(G, f), j)] = probe.said[j][f]

IsCapOf(list, n) ==
    /\ Len(list) <= 5
    /\ n <= 5 => Len(list) = n
    /\ n > 5 => /\ Len(list) >= 1
                /\ list[Len(list)] = <<"a", "n", "d", " ">> \o NatToChars(n - (Len(list) - 1))
                                         \o <<" ", "m", "o", "r", "e">>

\* the edges that constrain a centrally-managed package from another package
Constraining ==
    {i \in DOMAIN probe.edges :
        /\ \E k \in DOMAIN getAllPackages :
              toLowerCase(getAllPackages[k].name) = toLowerCase(probe.edges[i].depName)
        /\ toLowerCase(probe.edges[i].parentPkg) # toLowerCase(probe.edges[i].depName)}

\* the constraining edges on the package of edge i
EdgesOn(i) ==
    {j \in Constraining :
        toLowerCase(probe.edges[j].depName) = toLowerCase(probe.edges[i].depName)}

FirstEdgeOfPackage == {i \in Constraining : \A j \in EdgesOn(i) : i <= j}

\* the edges of group G that bring a new parent
NewParents(G) ==
    {j \in G : \A k \in G : k < j => probe.edges[k].parentPkg # probe.edges[j].parentPkg}

\* C16: transitiveParents of every record of parseNu1608Warnings and requiredBy
\* of every constraint of extractConstraintsFromAssets have at most 5 entries;
\* more than 5 collected names leave the first names in first-seen order and one
\* 'and N more' entry, N the number of omitted names.
C16_NameListsCapped ==
    /\ Returned("parseNu1608Warnings") =>
          \A i \in FirstOfPackage :
              LET list == probe.result[Rank(FirstOfPackage, i)].transitiveParents
                  S == FirstSayers(GroupOf(i), "constrainer")
              IN /\ IsCapOf(list, Cardinality(S))
                 /\ \A j \in S : (Cardinality(S) > 5 /\ Rank(S, j) < Len(list))
                                     => list[Rank(S, j)] = probe.said[j].constrainer
    /\ Returned("extractConstraints") =>
          /\ Len(probe.result) = Cardinality(FirstEdgeOfPackage)
          /\ \A i \in FirstEdgeOfPackage :
              LET list == probe.result[Rank(FirstEdgeOfPackage, i)].requiredBy
                  S == NewParents(EdgesOn(i))
              IN /\ IsCapOf(list, Cardinality(S))
                 /\ \A j \in S : (Cardinality(S) > 5 /\ Rank(S, j) < Len(list))
                                     => list[Rank(S, j)] = probe.edges[j].parentPkg

\* eight constrainers of X: three are named and five counted
C16_Witness ==
    /\ Returned("parseNu1608Warnings")
    /\ probe.said = ManyWarnings(8, 8)
    /\ Len(probe.result) = 1
    /\ probe.result[1].transitiveParents =
           <<<<"P", "1">>, <<"P", "2">>, <<"P", "3">>,
             <<"a", "n", "d", " ", "5", " ", "m", "o", "r", "e">>>>

\* ------------------------------------------------------------------------
\* extractConstraintsFromAssets : which requirement is stored
\* ------------------------------------------------------------------------
IsExactForm(e) == e.form \in {"exact", "pair"}

\* the edge whose requirement is stored for the package of edge i: the first
\* exact one, the first one when none is exact
StoredEdge(i) ==
    LET exact == {j \in EdgesOn(i) : IsExactForm(probe.edges[j])}
        from == IF exact = {} THEN EdgesOn(i) ELSE exact
    IN CHOOSE j \in from : \A k \in from : j <= k

\* C18: of the edges that constrain one centrally-managed package the stored
\* requirement is that of the first exact edge, and of the first edge when none
\* is exact: a minimum is replaced by an exact requirement only, an exact one
\* never; every distinct parent is added to requiredBy.
C18_ExactOverMinimum ==
    Returned("extractConstraints") =>
        /\ Len(probe.result) = Cardinality(FirstEdgeOfPackage)
        /\ \A i \in FirstEdgeOfPackage :
              LET c == probe.result[Rank(FirstEdgeOfPackage, i)]
                  e == probe.edges[StoredEdge(i)]
                  S == NewParents(EdgesOn(i))
              IN /\ c.packageId = probe.edges[i].depName
                 /\ c.isExact = IsExactForm(e)
                 /\ c.requiredVersion = e.version
                 /\ c.versionRange = RangeOf(e)
                 /\ Cardinality(S) <= 5 =>
                       /\ Len(c.requiredBy) = Cardinality(S)
                       /\ \A j \in S : c.requiredBy[Rank(S, j)] = probe.edges[j].parentPkg

\* a minimum, then an exact requirement, then another exact one on X
C18_Witness ==
    /\ Returned("extractConstraints")
    /\ probe.edges = <<Edge(PkgQ, PkgLowerX, V2, "minimum"),
                       Edge(PkgP, PkgX, V1, "exact"),
                       Edge(PkgQ, PkgX, V3, "pair")>>
    /\ Len(probe.result) = 1
    /\ probe.result[1].isExact
    /\ probe.result[1].requiredVersion = V1
    /\ probe.result[1].requiredBy = <<PkgQ, PkgP>>

\* ------------------------------------------------------------------------
\* extractVulnerabilities
\* ------------------------------------------------------------------------
\* the package occurrences of the scanned report, top-level before transitive
Scanned == VulnerabilityEntries(probe.output)

\* the occurrences that carry at least one vulnerability
Vulnerable == {k \in DOMAIN Scanned : Len(Scanned[k].pkg.vulnerabilities) > 0}

\* the occurrences of the (lowercase id, resolvedVersion) of occurrence k
SamePair(k) ==
    {j \in DOMAIN Scanned :
        /\ toLowerCase(Scanned[j].pkg.id) = toLowerCase(Scanned[k].pkg.id)
        /\ Scanned[j].pkg.resolvedVersion = Scanned[k].pkg.resolvedVersion}

FirstOfPair == {k \in Vulnerable : \A j \in SamePair(k) \cap Vulnerable : k <= j}

\* C17: extractVulnerabilities returns exactly one record per (lowercase id,
\* resolvedVersion) that carries a vulnerability; the record lists every project
\* in which the pair occurs exactly once, and isTransitive tells whether the
\* pair was first seen as a transitive package.
C17_OneRecordPerPair ==
    Returned("extractVulnerabilities") =>
        /\ Len(probe.result) = Cardinality(FirstOfPair)
        /\ \A k \in FirstOfPair :
              LET v == probe.result[Rank(FirstOfPair, k)] IN
              /\ toLowerCase(v.packageId) = toLowerCase(Scanned[k].pkg.id)
              /\ v.resolvedVersion = Scanned[k].pkg.resolvedVersion
              /\ v.isTransitive = Scanned[k].isTransitive
              /\ Len(v.vulnerabilities) > 0
              /\ Range(v.projects) = {Scanned[j].projectName : j \in SamePair(k)}
              /\ \A a, b \in DOMAIN v.projects : v.projects[a] = v.projects[b] => a = b

\* X 2.0 is transitive in project A and top-level in project B
C17_Witness ==
    /\ Returned("extractVulnerabilities")
    /\ probe.output.projects =
           <<ListProject(PathA, <<>>, <<ListPkg(PkgX, V2, TRUE)>>),
             ListProject(PathB, <<ListPkg(PkgX, V2, TRUE)>>, <<ListPkg(PkgY, V1, FALSE)>>)>>
    /\ Len(probe.result) = 1
    /\ probe.result[1].isTransitive
    /\ probe.result[1].projects = <<NameA, NameB>>

\* ------------------------------------------------------------------------
\* extractConstraintsFromAssets : the rebuild at the end of a pass
\* ------------------------------------------------------------------------
\* the step ended a pass: its rebuild folded the lock files probe.assetResults
PassEnded == probe.fn = "extractConstraintsFromAssets"

\* the lowercase names of the centrally-managed packages that a readable lock
\* file shows as a dependency of a different package
ConstrainedNames(assetResults) ==
    {toLowerCase(AssetEdges(assetResults)[d].depName) :
        d \in {d \in DOMAIN AssetEdges(assetResults) :
                  LET e == AssetEdges(assetResults)[d] IN
                  /\ \E k \in DOMAIN getAllPackages :
                        toLowerCase(getAllPackages[k].name) = toLowerCase(e.depName)
                  /\ toLowerCase(e.parentPkg) # toLowerCase(e.depName)}}

\* C19: after every pass that ends, the constraint index holds an entry for a
\* lowercase name exactly when a lock file that could be read shows a
\* centrally-managed package of that name as a dependency of another package;
\* entries of earlier rebuilds do not survive.
C19_IndexRebuilt ==
    PassEnded =>
        {transitiveConstraints[i].key : i \in DOMAIN transitiveConstraints}
            = ConstrainedNames(probe.assetResults)

\* ------------------------------------------------------------------------
\* ensureVulnerabilityDb
\* ------------------------------------------------------------------------
\* caller c makes its call in this step
Arrives(c) == callers[c].pc \in {"idle", "returned"} /\ callers'[c].pc # callers[c].pc

\* C20: at most one load of the advisory feed is in flight; a caller that
\* arrives during a load waits for that load and starts none; a caller that
\* found the database cold or stale returns only after the load it waited for
\* has settled.
C20_SingleLoad ==
    [][/\ Cardinality(Pending) <= 1
       /\ Cardinality({l \in LoadIds : loads'[l] = "pending"}) <= 1
       /\ \A c \in CallerIds :
             (Arrives(c) /\ Pending # {}) =>
                 /\ loads' = loads
                 /\ callers'[c].pc = "joined"
                 /\ callers'[c].awaits \in Pending
       /\ \A c \in CallerIds :
             (callers[c].pc \in {"started", "joined"} /\ callers'[c].pc = "returned") =>
                 loads[callers[c].awaits] = "settled"]_vars

\* every other caller waits for load 1, started by one of them
C20_Witness ==
    /\ Pending = {1}
    /\ \E c \in CallerIds :
          /\ callers[c] = [pc |-> "started", awaits |-> 1]
          /\ \A d \in CallerIds \ {c} : callers[d] = [pc |-> "joined", awaits |-> 1]

\* ------------------------------------------------------------------------
\* the query methods
\* ------------------------------------------------------------------------
\* list holds exactly the records of all whose packageId is name, ignoring
\* case, in their order
IsSelection(list, all, name) ==
    LET M == {i \in DOMAIN all : toLowerCase(all[i].packageId) = toLowerCase(name)}
    IN /\ Len(list) = Cardinality(M)
       /\ \A i \in M : list[Rank(M, i)] = all[i]

\* C21: in every state the queries return exactly the cached records whose
\* packageId is the name, ignoring case, and the index entry stored under the
\* lowercase name; nothing matching gives an empty list or undefined.
C21_QueriesSelectByName ==
    \A name \in QueryNames :
        /\ IsSelection(getConflictsForPackage(name),
                       analysisResult.transitiveConflicts, name)
        /\ IsSelection(getVulnerabilitiesForPackage(name),
                       analysisResult.vulnerablePackages, name)
        /\ LET K == {i \in DOMAIN transitiveConstraints :
                        transitiveConstraints[i].key = toLowerCase(name)}
           IN IF K = {} THEN getConstraintsForPackage(name) = <<>>
              ELSE \E i \in K : getConstraintsForPackage(name) = <<transitiveConstraints[i]>>

\* a pass is running over a filled cache: X is found under either spelling,
\* P has no conflict and Y no record at all
C21_Witness ==
    /\ \E p \in PassIds : InFlight(p)
    /\ analysisResult.isRunning
    /\ Len(getConflictsForPackage(PkgLowerX)) > 0
    /\ Len(getVulnerabilitiesForPackage(PkgX)) > 0
    /\ Len(getConstraintsForPackage(PkgX)) = 1
    /\ getConflictsForPackage(PkgP) = <<>>
    /\ getConstraintsForPackage(PkgY) = <<>>

\* ------------------------------------------------------------------------
\* compareVersions
\* ------------------------------------------------------------------------
\* C22: compare(v, v) = 0, compare(a, b) = -compare(b, a), compare(a, b) <= 0
\* and compare(b, c) <= 0 imply compare(a, c) <= 0, and segments are compared
\* as integers: compare("1.10.0", "1.9.0") = 1.
C22_TotalOrder ==
    Returned("compareVersions") =>
        /\ probe.result.aa = 0
        /\ probe.result.ab \in {0 - 1, 0, 1}
        /\ probe.result.ab = 0 - probe.result.ba
        /\ (probe.result.ab <= 0 /\ probe.result.bc <= 0) => probe.result.ac <= 0
        /\ (probe.a = V1_10_0 /\ probe.b = V1_9_0) => probe.result.ab = 1

\* 1.0 < 1.9.0 < 1.10.0
C22_Witness ==
    /\ Returned("compareVersions")
    /\ probe.a = V1 /\ probe.b = V1_9_0 /\ probe.c = V1_10_0
    /\ probe.result = [aa |-> 0, ab |-> 0 - 1, ba |-> 1, bc |-> 0 - 1, ac |-> 0 - 1]

\* ------------------------------------------------------------------------
\* versionInRange
\* ------------------------------------------------------------------------
\* C23: versionInRange is true exactly when the range has the bracketed form
\* with a comma and the version satisfies each bound that is present, inclusive
\* at '[' and ']', exclusive at '(' and ')', by compareVersions; every other
\* range text gives false.
C23_InRangeIffBoundsHold ==
    Returned("versionInRange") =>
        LET r == probe.range
            v == probe.version
        IN probe.result <=>
              /\ r.shaped
              /\ r.lower # <<>> =>
                     IF r.open = "[" THEN compareVersions(v, r.lower) >= 0
                     ELSE compareVersions(v, r.lower) > 0
              /\ r.upper # <<>> =>
                     IF r.close = "]" THEN compareVersions(v, r.upper) <= 0
                     ELSE compareVersions(v, r.upper) < 0

\* 2.0 is outside " [ 1.0 , 2.0 ) "
C23_Witness ==
    /\ Returned("versionInRange")
    /\ probe.version = V2
    /\ probe.range = RangeSaid("[", V1, V2, ")", TRUE)
    /\ probe.result = FALSE

\* ------------------------------------------------------------------------
\* parseVersionRange
\* ------------------------------------------------------------------------
\* C24: parseVersionRange gives isExact = true exactly for '[v]' and for
\* '[v, w]' with v = w, surrounding blanks trimmed, and then version = v; every
\* other form gives isExact = false and the first version token of the text.
C24_ExactForms ==
    Returned("parseVersionRange") =>
        LET r == probe.range
            exact == r.form = "exact" \/ (r.form = "pair" /\ r.v = r.w)
        IN /\ probe.result.isExact = exact
           /\ probe.result.version = IF r.form = "below" THEN r.w ELSE r.v

\* " [1.0, 1.0 ] " is exact, version 1.0
C24_Witness ==
    /\ Returned("parseVersionRange")
    /\ probe.range = Written("pair", V1, V1, TRUE)
    /\ probe.result = [version |-> V1, isExact |-> TRUE]

\* ------------------------------------------------------------------------
\* detectConflicts : transitiveParents
\* ------------------------------------------------------------------------
\* the occurrence that created record c: the first flagged one of its key
CreatedBy(c) ==
    CHOOSE k \in DOMAIN Occurrences :
        /\ IsFlagged(Occurrences[k]) /\ RecordOf(c, Occurrences[k])
        /\ \A j \in 1..(k - 1) : ~(IsFlagged(Occurrences[j]) /\ RecordOf(c, Occurrences[j]))

IsCentral(id) ==
    \E i \in DOMAIN getAllPackages : toLowerCase(getAllPackages[i].name) = toLowerCase(id)

\* C25: the transitiveParents of a record detectConflicts creates are at most
\* 5 names of top-level packages of the creating project and framework, none of
\* them the conflicting package, none of them centrally managed.
C25_ParentsExcludeCentral ==
    Returned("detectConflicts") =>
        \A q \in DOMAIN probe.result :
            LET c == probe.result[q]
                topLevel == Occurrences[CreatedBy(c)].topLevelIds
            IN /\ Len(c.transitiveParents) <= 5
               /\ \A a \in DOMAIN c.transitiveParents :
                     /\ \E k \in DOMAIN topLevel :
                           toLowerCase(topLevel[k]) = toLowerCase(c.transitiveParents[a])
                     /\ toLowerCase(c.transitiveParents[a]) # toLowerCase(c.packageId)
                     /\ ~IsCentral(c.transitiveParents[a])

\* ------------------------------------------------------------------------
\* extractConstraintsFromAssets : strictest requirement
\* ------------------------------------------------------------------------
\* C26: when every edge that constrains a centrally-managed package is a
\* minimum-version requirement, the stored requiredVersion is the highest of
\* those minimum versions, whatever the order of the edges.
C26_HighestMinimumStored ==
    Returned("extractConstraints") =>
        \A i \in FirstEdgeOfPackage :
            (\A j \in EdgesOn(i) : ~IsExactForm(probe.edges[j])) =>
                \A j \in EdgesOn(i) :
                    compareVersions(probe.result[Rank(FirstEdgeOfPackage, i)].requiredVersion,
                                    probe.edges[j].version) >= 0

\* ------------------------------------------------------------------------
\* isRunning
\* ------------------------------------------------------------------------
\* C27: in every reachable state, under any interleaving of runFullAnalysis,
\* runProjectAnalysis and clearCache, isRunning of the cached result is true
\* exactly when an analysis pass has started and not yet finished.
C27_RunningIffPassInFlight ==
    analysisResult.isRunning <=> \E p \in PassIds : InFlight(p)

\* ------------------------------------------------------------------------
\* clearCache and a pass in flight
\* ------------------------------------------------------------------------
\* the empty Idle shape the claim lists
ClearedShape ==
    /\ analysisResult.transitiveConflicts = <<>>
    /\ analysisResult.vulnerablePackages = <<>>
    /\ analysisResult.lastUpdated = NullDate
    /\ analysisResult.error = NULL
    /\ transitiveConstraints = <<>>

\* C28: once clearCache has been called, and as long as no new analysis is
\* triggered, the cache stays in the empty Idle shape (lists empty, lastUpdated
\* null, error null, constraint index empty), also when a pass was in flight:
\* the step that follows clearCache, unless it is a call of runFullAnalysis or
\* runProjectAnalysis, leaves the cleared cache empty.
C28_ClearedStaysEmpty ==
    [][(/\ lastCall.op = "clearCache"
        /\ lastCall'.op \notin {"runFullAnalysis", "runProjectAnalysis"})
         => ClearedShape']_vars

\* ------------------------------------------------------------------------
\* The cached conflict list
\* ------------------------------------------------------------------------
\* C29: after any sequence of completed full and incremental passes the cached
\* transitiveConflicts holds at most one record per (lowercase packageId,
\* framework), and every record has a non-empty projects list without
\* duplicate names.
C29_CachedConflictsKeyed ==
    LET cached == analysisResult.transitiveConflicts
    IN /\ \A i, j \in DOMAIN cached :
             (/\ toLowerCase(cached[i].packageId) = toLowerCase(cached[j].packageId)
              /\ cached[i].framework = cached[j].framework) => i = j
       /\ \A i \in DOMAIN cached :
             /\ cached[i].projects # <<>>
             /\ \A a, b \in DOMAIN cached[i].projects :
                   cached[i].projects[a] = cached[i].projects[b] => a = b

\* an incremental pass has committed and a cached record names two projects
C29_Witness ==
    \E p \in PassIds :
        /\ passes[p].kind = "project" /\ passes[p].pc = "constraints"
        /\ passes[p].outcome = "committed"
        /\ \E i \in DOMAIN analysisResult.transitiveConflicts :
              Len(analysisResult.transitiveConflicts[i].projects) >= 2

\* ------------------------------------------------------------------------
\* loadVulnerabilityDb : failure
\* ------------------------------------------------------------------------
\* the Map that holds every page of the feed as load l received it
Whole(l) == MapOf([k \in 1..PageCount |-> Page(l, k)])

\* load l ends in this step
Ends(l) == loads[l] = "pending" /\ loads'[l] = "settled"

\* C30: a failed reload never damages a loaded database. The index is replaced
\* only by a load that has fetched every page; a load that fails leaves an
\* existing index, its timestamp and what checkVulnerabilities serves as they
\* were, and installs an empty index only when none exists; no partly loaded
\* index is ever visible.
C30_FailedReloadHarmless ==
    [][/\ \A l \in LoadIds :
             Ends(l) =>
                 IF db'[l] = Whole(l)
                 THEN vulnDb' = Whole(l)
                 ELSE IF vulnDb # NoDb
                 THEN /\ vulnDb' = vulnDb /\ vulnDbTimestamp' = vulnDbTimestamp
                      /\ checkVulnerabilities' = checkVulnerabilities
                 ELSE vulnDb' = MapOf(<<>>) /\ checkVulnerabilities' = <<>>
       /\ (\A l \in LoadIds : ~Ends(l)) => vulnDb' = vulnDb
       /\ vulnDb' \in {NoDb, MapOf(<<>>)} \cup {Whole(l) : l \in LoadIds}]_vars

\* a reload has failed after its first page while the index of an earlier
\* load is served
C30_Witness ==
    \E l, m \in LoadIds :
        /\ l # m
        /\ loads[m] = "settled" /\ db[m] = MapOf(<<Page(m, 1)>>)
        /\ vulnDb = Whole(l)
        /\ checkVulnerabilities = [k \in 1..PageCount |-> Page(l, k)]


====
